---- MODULE Spec2Model ----
(***************************************************************************)
(* p42r: message intake and command dispatch pipeline.                     *)
(*                                                                         *)
(* The model follows src/src/core/command_router.py (CommandRouter),       *)
(* src/src/adapters/base_adapter.py (BaseAdapter) and                      *)
(* src/src/adapters/telegram_adapter.py (TelegramAdapter).                 *)
(*                                                                         *)
(* Python values are represented as follows.                               *)
(*   str   a sequence of one-character strings, <<"r","u","n">>            *)
(*   None  the record None                                                 *)
(*   int   PyInt(n) where an int shares a slot with None or a str          *)
(*   dict  a function from keys (TLA+ strings) to values; {} is EmptyDict  *)
(* An f-string with one interpolated value is the record                   *)
(* [fmt |-> <the literal part>, arg |-> <the interpolated value>].         *)
(***************************************************************************)
EXTENDS Integers, Sequences, FiniteSets, TLC

\* The longest token sequence parse_command is given.
MaxTokens == 3

\* The number of coroutines that run concurrently.
NumTasks == 2

VARIABLES
    handlers,            \* CommandRouter.handlers: handler name -> handler instance
    command_map,         \* CommandRouter.command_map: command -> handler name
    authorized_chat_id,  \* TelegramAdapter.authorized_chat_id (a str)
    bot_start_time,      \* TelegramAdapter.bot_start_time
    message_handler,     \* BaseAdapter.message_handler
    update,              \* the inbound platform event under test (chat, text, date)
    files,               \* the paths of the files that exist
    last,                \* the operation that ran last, its inputs and everything it did
    prev,                \* the inbound event handled before the update under test arrived
    is_running,          \* BaseAdapter.is_running
    tasks                \* the coroutines in progress: task id -> its position and locals

vars == <<handlers, command_map, authorized_chat_id, bot_start_time,
          message_handler, update, files, last, prev, is_running, tasks>>

----------------------------------------------------------------------------
(* Bounds of the model. *)

\* Longest text enumerated exhaustively over SmallAlphabet.
MaxTextLen == 2
\* Timestamps range over 0..MaxTime; the process starts strictly inside.
MaxTime == 2
\* How many of the handler instances of HandlerPool take part.
NumHandlers == 3

----------------------------------------------------------------------------
(* Python values. *)

None == [none |-> TRUE]
PyInt(n) == [int |-> n]
EmptyDict == [k \in {} |-> None]
DictSet(d, k, v) == [j \in DOMAIN d \cup {k} |-> IF j = k THEN v ELSE d[j]]
Fmt(f, a) == [fmt |-> f, arg |-> a]

----------------------------------------------------------------------------
(* str operations used by the parser and the adapter. *)

Whitespace == {" ", "\t"}

UpperChars == <<"A","B","C","D","E","F","G","H","I","J","K","L","M",
                "N","O","P","Q","R","S","T","U","V","W","X","Y","Z">>
LowerChars == <<"a","b","c","d","e","f","g","h","i","j","k","l","m",
                "n","o","p","q","r","s","t","u","v","w","x","y","z">>
DigitChars == <<"0","1","2","3","4","5","6","7","8","9">>

LowerChar(c) ==
    IF \E i \in 1..Len(UpperChars) : UpperChars[i] = c
    THEN LowerChars[CHOOSE i \in 1..Len(UpperChars) : UpperChars[i] = c]
    ELSE c

\* str.lower()
Lower(s) == [i \in 1..Len(s) |-> LowerChar(s[i])]

RECURSIVE LStrip(_)
LStrip(s) ==
    IF s = <<>> THEN s
    ELSE IF Head(s) \in Whitespace THEN LStrip(Tail(s)) ELSE s

RECURSIVE RStrip(_)
RStrip(s) ==
    IF s = <<>> THEN s
    ELSE IF s[Len(s)] \in Whitespace THEN RStrip(SubSeq(s, 1, Len(s) - 1)) ELSE s

\* str.strip()
Strip(s) == RStrip(LStrip(s))

\* Length of the leading run of non-whitespace characters.
RECURSIVE TokenLen(_)
TokenLen(s) ==
    IF s = <<>> \/ Head(s) \in Whitespace THEN 0 ELSE 1 + TokenLen(Tail(s))

\* str.split() with no separator: the maximal non-whitespace runs, in order.
RECURSIVE Split(_)
Split(s) ==
    LET t == LStrip(s) IN
    IF t = <<>> THEN <<>>
    ELSE LET n == TokenLen(t) IN
         <<SubSeq(t, 1, n)>> \o Split(SubSeq(t, n + 1, Len(t)))

\* ' '.join(parts)
RECURSIVE JoinSpace(_)
JoinSpace(parts) ==
    IF parts = <<>> THEN <<>>
    ELSE IF Len(parts) = 1 THEN parts[1]
    ELSE parts[1] \o <<" ">> \o JoinSpace(Tail(parts))

StartsWithSlash(s) == s # <<>> /\ Head(s) = "/"

IsDigit(c) == \E i \in 1..Len(DigitChars) : DigitChars[i] = c
DigitVal(c) == (CHOOSE i \in 1..Len(DigitChars) : DigitChars[i] = c) - 1

\* The digits part of an int literal: digits, single underscores between them.
IsDigitGroup(s) ==
    /\ s # <<>>
    /\ \A i \in 1..Len(s) : IsDigit(s[i]) \/ s[i] = "_"
    /\ IsDigit(s[1]) /\ IsDigit(s[Len(s)])
    /\ \A i \in 1..(Len(s) - 1) : ~(s[i] = "_" /\ s[i + 1] = "_")

HasSign(s) == s # <<>> /\ Head(s) \in {"+", "-"}

\* Whether int(s) succeeds (s is one token: it holds no whitespace).
IsIntLiteral(s) == IsDigitGroup(IF HasSign(s) THEN Tail(s) ELSE s)

RECURSIVE DigitsValue(_, _)
DigitsValue(s, acc) ==
    IF s = <<>> THEN acc
    ELSE IF Head(s) = "_" THEN DigitsValue(Tail(s), acc)
    ELSE DigitsValue(Tail(s), 10 * acc + DigitVal(Head(s)))

\* int(s) for a literal s.
IntValue(s) ==
    IF HasSign(s)
    THEN (IF Head(s) = "-" THEN -1 ELSE 1) * DigitsValue(Tail(s), 0)
    ELSE DigitsValue(s, 0)

RECURSIVE NatToStr(_)
NatToStr(n) ==
    IF n < 10 THEN <<DigitChars[n + 1]>>
    ELSE NatToStr(n \div 10) \o <<DigitChars[(n % 10) + 1]>>

\* str(n) for an int n.
IntToStr(n) == IF n < 0 THEN <<"-">> \o NatToStr(-n) ELSE NatToStr(n)

----------------------------------------------------------------------------
(* The str literals of the source. *)

S_run == <<"r","u","n">>
S_exec == <<"e","x","e","c">>
S_run_screen == <<"r","u","n","_","s","c","r","e","e","n">>
S_kill == <<"k","i","l","l">>
S_ps == <<"p","s">>
S_list == <<"l","i","s","t">>
S_set_password == <<"s","e","t","_","p","a","s","s","w","o","r","d">>
S_log == <<"l","o","g">>
S_cleanup == <<"c","l","e","a","n","u","p">>
S_unknown == <<"u","n","k","n","o","w","n">>

----------------------------------------------------------------------------
(* CommandRouter.parse_command *)

ValueError(tok) ==
    [type |-> "ValueError",
     msg |-> Fmt("invalid literal for int() with base 10: ", tok)]

Returned(command, args) == [raised |-> FALSE, command |-> command, args |-> args]
Raised(exc) == [raised |-> TRUE, exc |-> exc]

\* args[f'arg{i}'] = parts[i] for i in range(1, len(parts))
GenericArgs(parts) ==
    [k \in {"arg" \o ToString(i) : i \in 1..(Len(parts) - 1)} |->
        parts[(CHOOSE i \in 1..(Len(parts) - 1) : k = "arg" \o ToString(i)) + 1]]

\* Faulty variant of shell_args: joins every part, the command name included.
shell_args_all_parts(parts) == [command |-> JoinSpace(parts)]

\* 'command': ' '.join(parts[1:])
shell_args(parts) == [command |-> JoinSpace(Tail(parts))]

\* The argument shaping of parse_command, for a text of two or more parts.
\* Faulty variant of set_password_args: a third token that is not an integer
\* is dropped instead of raising.
set_password_args_lenient(parts) ==
    Returned(S_set_password,
             [password |-> parts[2],
              xor_key |-> IF Len(parts) > 2 /\ IsIntLiteral(parts[3])
                          THEN PyInt(IntValue(parts[3])) ELSE None])

\* 'password': parts[1], 'xor_key': int(parts[2]) if len(parts) > 2 else None
set_password_args(parts) ==
    IF Len(parts) > 2
    THEN IF IsIntLiteral(parts[3])
         THEN Returned(S_set_password, [password |-> parts[2],
                                        xor_key |-> PyInt(IntValue(parts[3]))])
         ELSE Raised(ValueError(parts[3]))
    ELSE Returned(S_set_password, [password |-> parts[2], xor_key |-> None])

parse_args(command, parts) ==
    IF command \in {S_run, S_exec, S_run_screen}
    THEN Returned(command, shell_args(parts))
    ELSE IF command \in {S_kill}
    THEN Returned(command, [target |-> IF Len(parts) > 1 THEN parts[2] ELSE None])
    ELSE IF command \in {S_ps, S_list} /\ Len(parts) > 1
    THEN Returned(command, [filter |-> parts[2]])
    ELSE IF command = S_set_password /\ Len(parts) > 1
    THEN set_password_args(parts)
    ELSE IF command = S_log /\ Len(parts) > 1
    THEN Returned(command, [api_key |-> parts[2]])
    ELSE IF command = S_cleanup /\ Len(parts) > 1
    THEN IF IsIntLiteral(parts[2])
         THEN Returned(command, [max_age_hours |-> PyInt(IntValue(parts[2]))])
         ELSE Returned(command, None)
    ELSE LET args == GenericArgs(parts) IN
         Returned(command, IF DOMAIN args = {} THEN None ELSE args)

\* Faulty variant of StripSlash: removes the slash before it strips.
StripSlash_slash_first(text) ==
    Strip(IF StartsWithSlash(text) THEN Tail(text) ELSE text)

\* The text after strip() and after one leading slash is removed.
StripSlash(text) ==
    LET t == Strip(text) IN IF StartsWithSlash(t) THEN Tail(t) ELSE t

parse_command(text) ==
    LET t == StripSlash(text) IN
    IF t = <<>> THEN Returned(<<>>, None)
    ELSE LET parts == Split(t)
             command == Lower(parts[1])
         IN IF Len(parts) = 1 THEN Returned(command, None)
            ELSE parse_args(command, parts)

----------------------------------------------------------------------------
(* Handlers (BaseHandler implementations) as the router sees them: a name,  *)
(* the commands get_supported_commands() declares, and what handle() does.  *)

HandlerPool ==
    << [id |-> "shell#1",    name |-> "shell",    commands |-> {S_run, S_ps}],
       [id |-> "system#1",   name |-> "system",   commands |-> {S_run, S_kill, S_cleanup}],
       [id |-> "shell#2",    name |-> "shell",    commands |-> {S_kill, S_set_password}],
       [id |-> "security#1", name |-> "security", commands |-> {S_set_password, S_log}],
       [id |-> "system#2",   name |-> "system",   commands |-> {S_ps, S_cleanup}] >>

Min(a, b) == IF a < b THEN a ELSE b

HandlerInstances == {HandlerPool[i] : i \in 1..Min(NumHandlers, Len(HandlerPool))}
HandlerNames == {h.name : h \in HandlerInstances}

\* What one call of handler.handle(command, args) does:
\*   "ok" / "fail"  returns a response with success True / False
\*   "raise"        raises an Exception (an unexpected fault)
\*   "exit"         reaches SystemManager.shutdown_system: sys.exit(0)
HandlerBehaviours == {"ok", "fail", "raise", "exit"}

SystemExit == [type |-> "SystemExit", msg |-> Fmt("", 0)]

\* SystemExit derives from BaseException, not from Exception.
IsException(exc) == exc.type # "SystemExit"

handle(h, command, args, beh) ==
    CASE beh = "ok" ->
           [raised |-> FALSE,
            response |-> [success |-> TRUE, message |-> Fmt("done: ", command),
                          handler |-> h.name, data |-> EmptyDict]]
      [] beh = "fail" ->
           [raised |-> FALSE,
            response |-> [success |-> FALSE, message |-> Fmt("failed: ", command),
                          handler |-> h.name, data |-> EmptyDict]]
      [] beh = "raise" ->
           Raised([type |-> "RuntimeError", msg |-> Fmt("handler fault: ", command)])
      [] beh = "exit" -> Raised(SystemExit)

----------------------------------------------------------------------------
(* CommandRouter *)

\* dict with key k removed
DictDel(d, ks) == [j \in DOMAIN d \ ks |-> d[j]]

Registry(hs, cm) == [handlers |-> hs, command_map |-> cm]

\* Faulty variant of register_handler: a command already mapped keeps its owner.
register_handler_keep_first(hs, cm, h) ==
    Registry(DictSet(hs, h.name, h),
             [c \in DOMAIN cm \cup h.commands |->
                 IF c \in DOMAIN cm THEN cm[c] ELSE h.name])

\* Faulty variant of register_handler: a handler whose name is registered
\* already is left as it is.
register_handler_skip_known(hs, cm, h) ==
    IF h.name \in DOMAIN hs
    THEN Registry(hs, cm)
    ELSE Registry(DictSet(hs, h.name, h),
                  [c \in DOMAIN cm \cup h.commands |->
                      IF c \in h.commands THEN h.name ELSE cm[c]])

\* Faulty variant of register_handler: a handler that owns no command once the
\* new one is registered is dropped from handlers.
register_handler_evict_orphans(hs, cm, h) ==
    LET new_cm == [c \in DOMAIN cm \cup h.commands |->
                      IF c \in h.commands THEN h.name ELSE cm[c]]
        new_hs == DictSet(hs, h.name, h)
        owners == {new_cm[c] : c \in DOMAIN new_cm} \cup {h.name}
    IN Registry([n \in DOMAIN new_hs \cap owners |-> new_hs[n]], new_cm)

\* register_handler(handler) on the registry (hs, cm): the registry after it.
register_handler(hs, cm, h) ==
    Registry(DictSet(hs, h.name, h),
             [c \in DOMAIN cm \cup h.commands |->
                 IF c \in h.commands THEN h.name ELSE cm[c]])

\* Faulty variant of unregister_handler: removes the commands the handler
\* declares instead of the commands mapped to it.
unregister_handler_declared(hs, cm, handler_name) ==
    IF handler_name \notin DOMAIN hs
    THEN [registry |-> Registry(hs, cm), ret |-> FALSE]
    ELSE [registry |-> Registry(DictDel(hs, {handler_name}),
                                DictDel(cm, hs[handler_name].commands)),
          ret |-> TRUE]

\* Faulty variant of unregister_handler: removes the handler entry and leaves
\* the command mappings.
unregister_handler_entry_only(hs, cm, handler_name) ==
    IF handler_name \notin DOMAIN hs
    THEN [registry |-> Registry(hs, cm), ret |-> FALSE]
    ELSE [registry |-> Registry(DictDel(hs, {handler_name}), cm), ret |-> TRUE]

\* unregister_handler(handler_name) on the registry (hs, cm): the registry
\* after it and the value returned.
unregister_handler(hs, cm, handler_name) ==
    IF handler_name \notin DOMAIN hs
    THEN [registry |-> Registry(hs, cm), ret |-> FALSE]
    ELSE LET commands_to_remove == {c \in DOMAIN cm : cm[c] = handler_name} IN
         [registry |-> Registry(DictDel(hs, {handler_name}),
                                DictDel(cm, commands_to_remove)),
          ret |-> TRUE]

_create_error_response(message) ==
    [success |-> FALSE, message |-> message, handler |-> "router"]

\* "if context:" - None and {} are falsy.
Truthy(context) == context # None /\ DOMAIN context # {}

\* The args handed to the handler: {} for None, plus the context when given.
route_args(args, context) ==
    LET a == IF args = None THEN EmptyDict ELSE args IN
    IF Truthy(context) THEN DictSet(a, "_context", context) ELSE a

\* Faulty variant of route_except: no except clause, every exception escapes.
route_except_reraise(exc, invoked, looked_up) ==
    [response |-> None, escaped |-> exc, raised |-> exc,
     invoked |-> invoked, looked_up |-> looked_up]

\* The except clause of route_command: Exception is caught, the rest escapes.
route_except(exc, invoked, looked_up) ==
    IF IsException(exc)
    THEN [response |-> _create_error_response(Fmt("Routing error: ", exc.msg)),
          escaped |-> None, raised |-> exc,
          invoked |-> invoked, looked_up |-> looked_up]
    ELSE [response |-> None, escaped |-> exc, raised |-> exc,
          invoked |-> invoked, looked_up |-> looked_up]

\* A return of route_command from inside the try block.
route_return(response, invoked, looked_up) ==
    [response |-> response, escaped |-> None, raised |-> None,
     invoked |-> invoked, looked_up |-> looked_up]

\* The lookup and the invocation of route_command (lines 158-170).
route_dispatch(hs, cm, command, args, beh) ==
    IF command \notin DOMAIN cm
    THEN route_return(_create_error_response(Fmt("Unknown command: ", command)),
                      <<>>, TRUE)
    ELSE LET handler_name == cm[command] IN
         IF handler_name \notin DOMAIN hs
         THEN route_except([type |-> "KeyError", msg |-> Fmt("'%s'", handler_name)],
                           <<>>, TRUE)
         ELSE LET handler == hs[handler_name]
                  res == handle(handler, command, args, beh)
                  call == [handler |-> handler, command |-> command, args |-> args,
                           result |-> res]
              IN IF res.raised
                 THEN route_except(res.exc, <<call>>, TRUE)
                 ELSE route_return(res.response, <<call>>, TRUE)

\* route_command(text, context) against registry (hs, cm), the handler, if one
\* is invoked, behaving as beh. The outcome records the response returned (or
\* None), the exception that escaped (or None), the exception raised inside the
\* try block (or None), the handler calls made with their results, and whether
\* command_map was consulted.
route_command(hs, cm, text, context, beh) ==
    LET p == parse_command(text) IN
    IF p.raised THEN route_except(p.exc, <<>>, FALSE)
    ELSE IF p.command = <<>>
    THEN route_return(_create_error_response(Fmt("Empty command", <<>>)),
                      <<>>, FALSE)
    ELSE route_dispatch(hs, cm, p.command, route_args(p.args, context), beh)

\* route_command up to its only await (lines 148-163), with no yield point:
\* parse, the membership test and the handler lookup. Either the call has
\* returned (done) or it is about to await handler.handle on the handler
\* object it looked up.
route_resolve(hs, cm, text, context) ==
    LET p == parse_command(text) IN
    IF p.raised THEN [done |-> TRUE, out |-> route_except(p.exc, <<>>, FALSE)]
    ELSE IF p.command = <<>>
    THEN [done |-> TRUE,
          out |-> route_return(_create_error_response(Fmt("Empty command", <<>>)),
                               <<>>, FALSE)]
    ELSE IF p.command \notin DOMAIN cm
    THEN [done |-> TRUE,
          out |-> route_return(_create_error_response(Fmt("Unknown command: ", p.command)),
                               <<>>, TRUE)]
    ELSE IF cm[p.command] \notin DOMAIN hs
    THEN [done |-> TRUE,
          out |-> route_except([type |-> "KeyError", msg |-> Fmt("'%s'", cm[p.command])],
                               <<>>, TRUE)]
    ELSE [done |-> FALSE, handler |-> hs[cm[p.command]], command |-> p.command,
          args |-> route_args(p.args, context)]

\* The outcome of route_command once handler.handle has returned or raised.
route_finish(handler, command, args, beh) ==
    LET res == handle(handler, command, args, beh)
        call == [handler |-> handler, command |-> command, args |-> args,
                 result |-> res]
    IN IF res.raised
       THEN route_except(res.exc, <<call>>, TRUE)
       ELSE route_return(res.response, <<call>>, TRUE)

\* Faulty variant of route_await: the handler is looked up in the registry when
\* the await is over.
route_await_lookup_late(hs, cm, r, beh) ==
    IF r.command \notin DOMAIN cm \/ cm[r.command] \notin DOMAIN hs
    THEN route_except([type |-> "KeyError", msg |-> Fmt("'%s'", r.command)], <<>>, TRUE)
    ELSE route_finish(hs[cm[r.command]], r.command, r.args, beh)

\* await handler.handle(command, args) and what follows (lines 168-174), for a
\* call that resolved r: it runs on the local variable handler, whatever the
\* registry (hs, cm) has become.
route_await(hs, cm, r, beh) == route_finish(r.handler, r.command, r.args, beh)

\* handler_name.title() for the handler names of the pool
title(handler_name) ==
    CASE handler_name = "shell" -> "Shell"
      [] handler_name = "system" -> "System"
      [] handler_name = "security" -> "Security"

\* handler.get_help(command), and handler.get_help() when command is None
handler_get_help(h, command) == [help_of |-> h.id, command |-> command]

\* get_help(command) on the registry (hs, cm). The listing for all handlers is
\* kept as the collection of its sections, one per entry of handlers; the
\* order in which the dict yields them is left out.
get_help(hs, cm, command) ==
    IF command # None
    THEN IF command \notin DOMAIN cm
         THEN [raised |-> FALSE, text |-> Fmt("Unknown command: ", command)]
         ELSE IF cm[command] \notin DOMAIN hs
         THEN Raised([type |-> "KeyError", msg |-> Fmt("'%s'", cm[command])])
         ELSE [raised |-> FALSE, text |-> handler_get_help(hs[cm[command]], command)]
    ELSE [raised |-> FALSE,
          sections |-> {[heading |-> Fmt("\n**%s Commands:**\n", title(n)),
                         body |-> handler_get_help(hs[n], None)] : n \in DOMAIN hs}]

\* get_handler_info() on the registry: the commands each registered handler
\* declares, under its name. (The class name of the handler is left out.)
get_handler_info(hs, cm) ==
    [n \in DOMAIN hs |-> [commands |-> hs[n].commands]]

\* Code points order the characters of a str: digits, upper case, "_", lower case.
CodePointOrder == DigitChars \o UpperChars \o <<"_">> \o LowerChars
Ord(c) == CHOOSE i \in 1..Len(CodePointOrder) : CodePointOrder[i] = c

\* a < b on str
RECURSIVE StrLess(_, _)
StrLess(a, b) ==
    IF b = <<>> THEN FALSE
    ELSE IF a = <<>> THEN TRUE
    ELSE IF Head(a) = Head(b) THEN StrLess(Tail(a), Tail(b))
    ELSE Ord(Head(a)) < Ord(Head(b))

\* sorted(list(S)) for a collection of distinct str
RECURSIVE sorted(_)
sorted(S) ==
    IF S = {} THEN <<>>
    ELSE LET m == CHOOSE x \in S : \A y \in S \ {x} : StrLess(x, y)
         IN <<m>> \o sorted(S \ {m})

\* Faulty variant of get_available_commands: lists what the registered
\* handlers declare instead of the keys of command_map.
get_available_commands_declared(hs, cm) ==
    sorted(UNION {hs[n].commands : n \in DOMAIN hs})

\* get_available_commands() on the registry (hs, cm)
get_available_commands(hs, cm) == sorted(DOMAIN cm)

----------------------------------------------------------------------------
(* Inputs: message texts and contexts. *)

SP == <<" ">>
TAB == <<"\t">>
Slash == <<"/">>
W_ls == <<"l","s">>
W_la == <<"-","l","a">>
W_7 == <<"7">>
W_x == <<"x">>
W_s == <<"s">>
W_RUN == <<"R","U","N">>

\* Command texts, one or more per argument shape of parse_command.
CommandTexts ==
    { Slash \o S_run \o SP \o W_ls \o SP \o W_la,           \* "/run ls -la"
      W_RUN \o SP \o SP \o W_ls \o TAB \o W_la,             \* "RUN  ls\t-la"
      Slash \o S_exec \o SP \o W_ls,                        \* "/exec ls"
      Slash \o S_run_screen \o SP \o W_ls \o SP \o SP \o W_x, \* "/run_screen ls  x"
      Slash \o S_run,                                       \* "/run"
      S_run \o SP \o W_ls,                                  \* "run ls"
      Slash \o S_kill \o SP \o W_7,                         \* "/kill 7"
      Slash \o S_ps,                                        \* "/ps"
      Slash \o S_ps \o SP \o W_x,                           \* "/ps x"
      Slash \o S_set_password \o SP \o W_s,                 \* "/set_password s"
      Slash \o S_set_password \o SP \o W_s \o SP \o W_7,    \* "/set_password s 7"
      Slash \o S_set_password \o SP \o W_s \o SP \o W_x,    \* "/set_password s x"
      Slash \o S_log \o SP \o W_x,                          \* "/log x"
      Slash \o S_cleanup \o SP \o W_7,                      \* "/cleanup 7"
      Slash \o S_cleanup \o SP \o W_x,                      \* "/cleanup x"
      Slash \o S_unknown,                                   \* "/unknown"
      Slash \o S_unknown \o SP \o W_ls \o SP \o W_la,       \* "/unknown ls -la"
      SP \o Slash \o SP,                                    \* " / "
      TAB \o Slash \o TAB \o W_x \o TAB }                    \* "\t/\tx\t"

\* Every text of at most MaxTextLen characters over a blank, the marker and
\* one letter: the texts around the empty command.
SmallAlphabet == {" ", "/", "x"}
SmallTexts == UNION {[1..n -> SmallAlphabet] : n \in 0..MaxTextLen}

Texts == CommandTexts \cup SmallTexts

\* The context argument of route_command: absent, empty, or a message's info.
ContextPool == << None, EmptyDict, [chat_id |-> <<"4","2">>, text |-> <<"x">>] >>

----------------------------------------------------------------------------------------------------------------------------------------------------------------------------------------------------
(* TelegramAdapter: extraction, authorization, freshness, send primitives. *)

\* str(x) for an id given as an int, as a str, or None.
Str(x) ==
    IF x = None THEN <<"N","o","n","e">>
    ELSE IF "int" \in DOMAIN x THEN IntToStr(x.int) ELSE x.str

\* Faulty variant of _is_message_recent: a message sent at the very start time
\* counts as old.
_is_message_recent_strict(message_date, start) == message_date > start

_is_message_recent(message_date, start) == message_date >= start

\* An update whose effective_chat is missing makes the extraction raise; the
\* except clause returns the fallback info.
extract_message_info(upd, start) ==
    IF upd.chat_id = None
    THEN [chat_id |-> [str |-> S_unknown], text |-> <<>>, is_recent |-> FALSE]
    ELSE [chat_id |-> [str |-> Str(upd.chat_id)],
          text |-> upd.text,
          date |-> upd.date,
          is_recent |-> _is_message_recent(upd.date, start)]

\* context.get('chat_id', '')
ContextChatId(context) ==
    IF "chat_id" \in DOMAIN context THEN context.chat_id ELSE [str |-> <<>>]

\* Faulty variant of is_authorized: compares the chat id without str().
is_authorized_no_str(context, authorized) ==
    ContextChatId(context) = [str |-> authorized]

\* Faulty variant of is_authorized: accepts every message that has a chat id.
is_authorized_any_chat(context, authorized) ==
    Str(ContextChatId(context)) # <<>>

is_authorized(context, authorized) == Str(ContextChatId(context)) = authorized

\* The platform's send call succeeds or fails with the network.
Network == {"up", "down"}

\* send_text_message never raises: a failed send is the result False.
send_text_message(text, context, net) ==
    [via |-> "send_text_message", text |-> text, ok |-> net = "up"]

\* update.message.reply_text raises when the send fails.
reply_text(text, net) == [via |-> "reply_text", text |-> text, ok |-> net = "up"]
NetworkError == [type |-> "NetworkError", msg |-> Fmt("send failed", <<>>)]

Text(s) == Fmt(s, <<>>)

----------------------------------------------------------------------------
(* BaseAdapter.handle_platform_message and handle_response.                 *)
(* An outcome records the outbound sends in order, the calls of the message *)
(* handler, the handler invocations made by the router, and the exception   *)
(* that escaped to the platform transport (or None).                        *)

\* removed lists the os.remove calls made while the response was delivered.
Outcome(sends, calls, invoked, escaped) ==
    [sends |-> sends, calls |-> calls, invoked |-> invoked, escaped |-> escaped,
     removed |-> <<>>]

\* sub in s, for two strs
Contains(s, sub) ==
    \E i \in 0..(Len(s) - Len(sub)) : SubSeq(s, i + 1, i + Len(sub)) = sub

S_tmp_slash == <<"/","t","m","p","/">>

\* send_image_message never raises: it returns False when the file is missing
\* or the send fails.
send_image_message(image_path, caption_text, context, net, existing) ==
    [via |-> "send_image_message", image_path |-> image_path, caption |-> caption_text,
     ok |-> image_path \in existing /\ net = "up"]

\* response.get(key, default)
response_get(response, key, default) ==
    IF key \in DOMAIN response THEN response[key] ELSE default

\* Faulty variant of caption: the success prefix whatever the result says.
caption_always_success(success, message) == Fmt("[camera] ", message)

\* The caption of the image: the message after a camera sign on success and
\* after a cross sign otherwise.
caption(success, message) ==
    IF success THEN Fmt("[camera] ", message) ELSE Fmt("[cross] ", message)

\* What os.remove raises when the file cannot be removed.
OSError == [type |-> "OSError", msg |-> Fmt("cannot remove", <<>>)]

\* The file system as handle_response meets it: the existing paths and
\* whether os.remove succeeds.
FS(existing, rm) == [files |-> existing, rm |-> rm]
RemoveOutcomes == {"ok", "fail"}

\* if os.path.exists(image_path) and '/tmp/' in image_path: os.remove(image_path)
temp_file_removal(image_path, fs) ==
    IF image_path \in fs.files /\ Contains(image_path, S_tmp_slash)
    THEN << [path |-> image_path, ok |-> fs.rm = "ok"] >>
    ELSE <<>>

IsSendEvent(e) == "via" \in DOMAIN e
IsRemoveEvent(e) == "path" \in DOMAIN e

\* What one handle_response did: its sends and os.remove calls in the order
\* they were made (events), the sends and the removals among them, and the
\* exception that escaped (or None).
Delivery(events, escaped) ==
    [events |-> events, sends |-> SelectSeq(events, IsSendEvent),
     removed |-> SelectSeq(events, IsRemoveEvent), escaped |-> escaped]

\* Faulty variant of handle_response: the clean-up runs before the image send.
handle_response_remove_first(response, context, net, fs) ==
    LET message == response_get(response, "message", Text("No message"))
        success == response_get(response, "success", FALSE)
        data == response_get(response, "data", EmptyDict)
        text == send_text_message(message, context, net)
    IN IF "image_path" \in DOMAIN data
       THEN LET removal == temp_file_removal(data.image_path, fs)
                left == fs.files \ {removal[i].path :
                                       i \in {j \in 1..Len(removal) : removal[j].ok}}
            IN Delivery(<<text>> \o removal \o
                        << send_image_message(data.image_path, caption(success, message),
                                              context, net, left) >>,
                        None)
       ELSE Delivery(<<text>>, None)

\* Faulty variant of handle_response: neither try block, so that a failing
\* os.remove raises out of it.
handle_response_unguarded(response, context, net, fs) ==
    LET message == response_get(response, "message", Text("No message"))
        success == response_get(response, "success", FALSE)
        data == response_get(response, "data", EmptyDict)
        text == send_text_message(message, context, net)
    IN IF "image_path" \in DOMAIN data
       THEN LET removed == temp_file_removal(data.image_path, fs) IN
            Delivery(<< text,
                        send_image_message(data.image_path, caption(success, message),
                                           context, net, fs.files) >>
                     \o removed,
                     IF removed # <<>> /\ ~removed[1].ok THEN OSError ELSE None)
       ELSE Delivery(<<text>>, None)

\* handle_response: the text, then the image and the removal of the image
\* file when the data names one. A failing os.remove is caught and logged.
handle_response(response, context, net, fs) ==
    LET message == response_get(response, "message", Text("No message"))
        success == response_get(response, "success", FALSE)
        data == response_get(response, "data", EmptyDict)
        text == send_text_message(message, context, net)
    IN IF "image_path" \in DOMAIN data
       THEN Delivery(<< text,
                        send_image_message(data.image_path, caption(success, message),
                                           context, net, fs.files) >>
                     \o temp_file_removal(data.image_path, fs),
                     None)
       ELSE Delivery(<<text>>, None)

RouteCommandHandler == [fn |-> "route_command"]
OtherHandler == [fn |-> "callable"]
\* A message handler that answers every text with the given response.
CaptureHandler(response) == [fn |-> "capture", response |-> response]

\* await self.message_handler(text, message_info): the router's route_command,
\* or another callable, which returns a response or raises as beh says.
call_message_handler(mh, hs, cm, text, context, beh) ==
    IF mh = RouteCommandHandler
    THEN route_command(hs, cm, text, context, beh)
    ELSE IF mh.fn = "capture"
    THEN route_return(mh.response, <<>>, FALSE)
    ELSE LET res == handle([name |-> "callable"], text, context, beh) IN
         IF res.raised
         THEN [response |-> None, escaped |-> res.exc, raised |-> res.exc,
               invoked |-> <<>>, looked_up |-> FALSE]
         ELSE route_return(res.response, <<>>, FALSE)

\* Faulty variant of platform_except: calls the message handler a second time
\* before it reports the error.
platform_except_retry(call, out, message_info, net) ==
    IF IsException(out.escaped)
    THEN Outcome(<< send_text_message(
                       Fmt("Error processing message: ", out.escaped.msg),
                       message_info, net) >>,
                 <<call, call>>, out.invoked \o out.invoked, None)
    ELSE Outcome(<<>>, <<call>>, out.invoked, out.escaped)

\* The message handler raised: "except Exception" reports the error as a text,
\* best effort; anything else escapes.
platform_except(call, out, message_info, net) ==
    IF IsException(out.escaped)
    THEN Outcome(<< send_text_message(
                       Fmt("Error processing message: ", out.escaped.msg),
                       message_info, net) >>,
                 <<call>>, out.invoked, None)
    ELSE Outcome(<<>>, <<call>>, out.invoked, out.escaped)

\* Faulty variant of message_text: the text is not stripped.
message_text_unstripped(message_info) == message_info.text

\* text = message_info.get('text', '').strip()
message_text(message_info) == Strip(message_info.text)

handle_platform_message(mh, hs, cm, upd, start, authorized, beh, net, fs) ==
    LET message_info == extract_message_info(upd, start) IN
    IF ~is_authorized(message_info, authorized)
    THEN Outcome(<< send_text_message(Text("Unauthorized access."), message_info, net) >>,
                 <<>>, <<>>, None)
    ELSE LET text == message_text(message_info) IN
         IF text = <<>> THEN Outcome(<<>>, <<>>, <<>>, None)
         ELSE IF mh = None THEN Outcome(<<>>, <<>>, <<>>, None)
         ELSE LET call == [text |-> text, context |-> message_info]
                  out == call_message_handler(mh, hs, cm, text, message_info, beh)
              IN IF out.escaped = None
                 THEN LET d == handle_response(out.response, message_info, net, fs) IN
                      IF d.escaped = None
                      THEN [Outcome(d.sends, <<call>>, out.invoked, None)
                               EXCEPT !.removed = d.removed]
                      ELSE LET e == platform_except(call, [out EXCEPT !.escaped = d.escaped],
                                                    message_info, net)
                           IN [e EXCEPT !.sends = d.sends \o e.sends,
                                        !.removed = d.removed]
                 ELSE platform_except(call, out, message_info, net)

----------------------------------------------------------------------------
(* TelegramAdapter entry points. *)

_handle_text_message(mh, hs, cm, upd, start, authorized, beh, net, fs) ==
    handle_platform_message(mh, hs, cm, upd, start, authorized, beh, net, fs)

\* A reply through update.message.reply_text, after which the handler returns.
reply_and_return(text, net) ==
    Outcome(<< reply_text(text, net) >>, <<>>, <<>>,
            IF net = "up" THEN None ELSE NetworkError)

\* Faulty variant of _handle_command_message: the freshness test comes before
\* the authorization test.
_handle_command_message_fresh_first(mh, hs, cm, upd, start, authorized, beh, net, fs) ==
    LET message_info == extract_message_info(upd, start) IN
    IF ~message_info.is_recent
    THEN reply_and_return(Text("Ignoring old message (sent before bot started)."), net)
    ELSE IF ~is_authorized(message_info, authorized)
    THEN reply_and_return(Text("Unauthorized."), net)
    ELSE handle_platform_message(mh, hs, cm, upd, start, authorized, beh, net, fs)

_handle_command_message(mh, hs, cm, upd, start, authorized, beh, net, fs) ==
    LET message_info == extract_message_info(upd, start) IN
    IF ~is_authorized(message_info, authorized)
    THEN reply_and_return(Text("Unauthorized."), net)
    ELSE IF ~message_info.is_recent
    THEN reply_and_return(Text("Ignoring old message (sent before bot started)."), net)
    ELSE handle_platform_message(mh, hs, cm, upd, start, authorized, beh, net, fs)

_handle_help_command(upd, start, authorized, net) ==
    IF ~is_authorized(extract_message_info(upd, start), authorized)
    THEN reply_and_return(Text("Unauthorized."), net)
    ELSE reply_and_return(Text("help_text"), net)

_handle_start_command(upd, start, authorized, net) ==
    IF ~is_authorized(extract_message_info(upd, start), authorized)
    THEN reply_and_return(Text("Unauthorized."), net)
    ELSE reply_and_return(Text("welcome_text"), net)

\* The handlers start() registers, in order; an update goes to the first whose
\* filter matches: CommandHandler("help"), CommandHandler("start"),
\* MessageHandler(TEXT & ~COMMAND), MessageHandler(COMMAND).
S_help == <<"/","h","e","l","p">>
S_start == <<"/","s","t","a","r","t">>

IsCommandChar(c) ==
    \/ IsDigit(c) \/ c = "_"
    \/ \E i \in 1..Len(LowerChars) : LowerChars[i] = c \/ UpperChars[i] = c

\* filters.COMMAND: the text starts with a bot command, "/" and a command name.
IsBotCommand(text) ==
    Len(text) >= 2 /\ text[1] = "/" /\ IsCommandChar(text[2])

FirstToken(text) == SubSeq(text, 1, TokenLen(text))

IsHelpUpdate(upd) == FirstToken(upd.text) = S_help
IsStartUpdate(upd) == FirstToken(upd.text) = S_start
IsCommandUpdate(upd) ==
    IsBotCommand(upd.text) /\ ~IsHelpUpdate(upd) /\ ~IsStartUpdate(upd)
IsTextUpdate(upd) == upd.text # <<>> /\ ~IsBotCommand(upd.text)

----------------------------------------------------------------------------
(* The operations as steps. *)

RegisterHandler(h) ==
    /\ handlers' = register_handler(handlers, command_map, h).handlers
    /\ command_map' = register_handler(handlers, command_map, h).command_map
    /\ last' = [op |-> "register_handler", handler |-> h,
                again |-> h.name \in DOMAIN handlers /\ handlers[h.name] = h]
    /\ UNCHANGED <<authorized_chat_id, bot_start_time, message_handler, update,
                   files, prev, is_running, tasks>>

UnregisterHandler(handler_name) ==
    /\ LET r == unregister_handler(handlers, command_map, handler_name) IN
           /\ handlers' = r.registry.handlers
           /\ command_map' = r.registry.command_map
           /\ last' = [op |-> "unregister_handler", handler_name |-> handler_name,
                       ret |-> r.ret]
    /\ UNCHANGED <<authorized_chat_id, bot_start_time, message_handler, update,
                   files, prev, is_running, tasks>>

\* get_help called with a command or with None
GetHelp(command) ==
    /\ last' = [op |-> "get_help", command |-> command,
                ret |-> get_help(handlers, command_map, command)]
    /\ UNCHANGED <<handlers, command_map, authorized_chat_id, bot_start_time,
                   message_handler, update, files, prev, is_running, tasks>>

GetHandlerInfo ==
    /\ last' = [op |-> "get_handler_info",
                ret |-> get_handler_info(handlers, command_map)]
    /\ UNCHANGED <<handlers, command_map, authorized_chat_id, bot_start_time,
                   message_handler, update, files, prev, is_running, tasks>>

\* route_command called directly with the text under test.
RouteCommand(context, beh) ==
    /\ last' = [op |-> "route_command", text |-> update.text, context |-> context,
                out |-> route_command(handlers, command_map, update.text, context, beh)]
    /\ UNCHANGED <<handlers, command_map, authorized_chat_id, bot_start_time,
                   message_handler, update, files, prev, is_running, tasks>>

\* parse_command called directly with the text under test.
ParseCommand ==
    /\ last' = [op |-> "parse_command", text |-> update.text,
                ret |-> parse_command(update.text)]
    /\ UNCHANGED <<handlers, command_map, authorized_chat_id, bot_start_time,
                   message_handler, update, files, prev, is_running, tasks>>

\* get_available_commands called on the router
GetAvailableCommands ==
    /\ last' = [op |-> "get_available_commands",
                ret |-> get_available_commands(handlers, command_map)]
    /\ UNCHANGED <<handlers, command_map, authorized_chat_id, bot_start_time,
                   message_handler, update, files, prev, is_running, tasks>>

\* BaseAdapter.set_message_handler
SetMessageHandler(handler) ==
    /\ message_handler' = handler
    /\ last' = [op |-> "set_message_handler"]
    /\ UNCHANGED <<handlers, command_map, authorized_chat_id, bot_start_time, update,
                   files, prev, is_running, tasks>>

\* is_authorized called on a context whose chat id is the update's as it is
\* given (an int, a str or None), converted to a str, or left out, and on the
\* message extracted from the update.
AuthContext(form) ==
    CASE form = "given" -> [chat_id |-> update.chat_id]
      [] form = "extracted" -> extract_message_info(update, bot_start_time)
      [] form = "str" -> [chat_id |-> [str |-> Str(update.chat_id)]]
      [] form = "missing" -> [text |-> update.text]

IsAuthorized(form) ==
    /\ last' = [op |-> "is_authorized", context |-> AuthContext(form),
                ret |-> is_authorized(AuthContext(form), authorized_chat_id)]
    /\ UNCHANGED <<handlers, command_map, authorized_chat_id, bot_start_time,
                   message_handler, update, files, prev, is_running, tasks>>

\* The files left once the removals of an outcome are done.
FilesAfter(existing, removed) ==
    existing \ {removed[i].path : i \in {j \in 1..Len(removed) : removed[j].ok}}

\* handle_response called directly with the response of the capture handler.
HandleResponse(net, rm) ==
    /\ message_handler # None /\ message_handler.fn = "capture"
    /\ LET context == extract_message_info(update, bot_start_time)
           d == handle_response(message_handler.response, context, net, FS(files, rm))
       IN /\ last' = [op |-> "handle_response", response |-> message_handler.response,
                      files |-> files, out |-> d]
          /\ files' = FilesAfter(files, d.removed)
    /\ UNCHANGED <<handlers, command_map, authorized_chat_id, bot_start_time,
                   message_handler, update, prev, is_running, tasks>>

AdapterUnchanged ==
    UNCHANGED <<handlers, command_map, authorized_chat_id, bot_start_time,
                message_handler, update, prev, is_running, tasks>>

TextMessage(beh, net, rm) ==
    /\ IsTextUpdate(update)
    /\ last' = [op |-> "_handle_text_message", update |-> update, files |-> files,
                out |-> _handle_text_message(message_handler, handlers, command_map,
                            update, bot_start_time, authorized_chat_id, beh, net,
                            FS(files, rm))]
    /\ files' = FilesAfter(files, last'.out.removed)
    /\ AdapterUnchanged

CommandMessage(beh, net, rm) ==
    /\ IsCommandUpdate(update)
    /\ last' = [op |-> "_handle_command_message", update |-> update, files |-> files,
                out |-> _handle_command_message(message_handler, handlers, command_map,
                            update, bot_start_time, authorized_chat_id, beh, net,
                            FS(files, rm))]
    /\ files' = FilesAfter(files, last'.out.removed)
    /\ AdapterUnchanged

HelpCommand(net) ==
    /\ IsHelpUpdate(update)
    /\ last' = [op |-> "_handle_help_command", update |-> update, files |-> files,
                out |-> _handle_help_command(update, bot_start_time,
                                             authorized_chat_id, net)]
    /\ UNCHANGED files
    /\ AdapterUnchanged

StartCommand(net) ==
    /\ IsStartUpdate(update)
    /\ last' = [op |-> "_handle_start_command", update |-> update, files |-> files,
                out |-> _handle_start_command(update, bot_start_time,
                                              authorized_chat_id, net)]
    /\ UNCHANGED files
    /\ AdapterUnchanged

\* The fields of the adapter that start() and stop() can reach.
Adapter(running, start_time) == [is_running |-> running, bot_start_time |-> start_time]

\* How start() ends: normally, with ImportError, or with another exception
\* raised while the application is built, initialized or started.
StartOutcomes == {"ok", "import_error", "error"}

\* Faulty variant of start: takes the time of the start as the new baseline.
start_new_baseline(adapter, now, outcome) ==
    CASE outcome = "ok" -> Adapter(TRUE, now)
      [] outcome = "import_error" -> Adapter(adapter.is_running, now)
      [] outcome = "error" -> Adapter(FALSE, now)

\* TelegramAdapter.start at time now: the adapter fields after it.
start(adapter, now, outcome) ==
    CASE outcome = "ok" -> Adapter(TRUE, adapter.bot_start_time)
      [] outcome = "import_error" -> adapter
      [] outcome = "error" -> Adapter(FALSE, adapter.bot_start_time)

\* How stop() ends: normally, or with an exception of the application that
\* its except clause logs.
StopOutcomes == {"ok", "error"}

\* TelegramAdapter.stop: the adapter fields after it. The application exists
\* whenever is_running is True, start() builds it first.
stop(adapter, outcome) ==
    IF adapter.is_running /\ outcome = "ok"
    THEN Adapter(FALSE, adapter.bot_start_time)
    ELSE adapter

Start(now, outcome) ==
    LET a == start(Adapter(is_running, bot_start_time), now, outcome) IN
    /\ is_running' = a.is_running
    /\ bot_start_time' = a.bot_start_time
    /\ last' = [op |-> "start", now |-> now, outcome |-> outcome, after |-> last.op]
    /\ UNCHANGED <<handlers, command_map, authorized_chat_id, message_handler,
                   update, files, prev, tasks>>

Stop(outcome) ==
    LET a == stop(Adapter(is_running, bot_start_time), outcome) IN
    /\ is_running' = a.is_running
    /\ bot_start_time' = a.bot_start_time
    /\ last' = [op |-> "stop", outcome |-> outcome]
    /\ UNCHANGED <<handlers, command_map, authorized_chat_id, message_handler,
                   update, files, prev, tasks>>

\* The platform delivers the next update once the current one was handled;
\* prev keeps what was done for the current one.
ReceiveUpdate(u) ==
    /\ last.op \in {"_handle_text_message", "_handle_command_message",
                    "_handle_help_command", "_handle_start_command"}
    /\ update' = u
    /\ prev' = last
    /\ last' = [op |-> "receive"]
    /\ UNCHANGED <<handlers, command_map, authorized_chat_id, bot_start_time,
                   message_handler, files, is_running, tasks>>

Register == \E h \in HandlerInstances : RegisterHandler(h)
Unregister == \E n \in HandlerNames : UnregisterHandler(n)
Route ==
    \E i \in 1..Len(ContextPool), beh \in HandlerBehaviours :
        RouteCommand(ContextPool[i], beh)
SetHandler == \E h \in {RouteCommandHandler, OtherHandler} : SetMessageHandler(h)
Authorize == \E form \in {"given", "str", "missing", "extracted"} : IsAuthorized(form)
Inbound ==
    \E beh \in HandlerBehaviours, net \in Network :
        \/ TextMessage(beh, net, "ok")
        \/ CommandMessage(beh, net, "ok")
        \/ HelpCommand(net)
        \/ StartCommand(net)

----------------------------------------------------------------------------
(* Initial states and specifications. *)

\* The configured principal, as given to TelegramAdapter.__init__: the same
\* id as an int and as a str.
PrincipalPool == << PyInt(42), [str |-> <<"4","2">>] >>

\* The chats updates come from: the principal's, another, and an update whose
\* chat cannot be extracted.
ChatPool == << PyInt(42), PyInt(7), None >>

\* Ids for the authorization test: ints and strs, equal and not, and None.
IdPool == << PyInt(42), [str |-> <<"4","2">>], PyInt(7), [str |-> <<"7">>],
            PyInt(-42), [str |-> <<"0","4","2">>], PyInt(420), [str |-> S_unknown],
            [str |-> <<>>], None >>

\* The texts of the updates the adapter is given.
AdapterTexts ==
    { SP,                                                   \* " "
      Slash,                                                \* "/"
      W_x,                                                  \* "x"
      S_run \o SP \o W_ls,                                  \* "run ls"
      Slash \o S_run \o SP \o W_ls \o SP \o W_la,           \* "/run ls -la"
      Slash \o S_kill \o SP \o W_7,                         \* "/kill 7"
      Slash \o S_unknown,                                   \* "/unknown"
      Slash \o S_set_password \o SP \o W_s \o SP \o W_x,    \* "/set_password s x"
      S_help,                                               \* "/help"
      S_start }                                             \* "/start"

\* A router after construction, and the text its route calls are given.
InitRouter ==
    /\ handlers = EmptyDict
    /\ command_map = EmptyDict
    /\ authorized_chat_id = Str(PrincipalPool[1])
    /\ bot_start_time = 1
    /\ message_handler = None
    /\ \E t \in Texts : update = [chat_id |-> PyInt(42), text |-> t, date |-> 1]
    /\ files = {}
    /\ last = [op |-> "init"]
    /\ prev = None
    /\ is_running = FALSE
    /\ tasks = <<>>

RouterNext == Register \/ Unregister \/ Route \/ GetAvailableCommands

\* The router alone: registrations, removals and route calls.
SpecRouter == InitRouter /\ [][RouterNext]_vars

\* A router and an adapter after construction, and the update under test.
Init ==
    /\ handlers = EmptyDict
    /\ command_map = EmptyDict
    /\ \E i \in 1..Len(PrincipalPool) : authorized_chat_id = Str(PrincipalPool[i])
    /\ bot_start_time \in 1..(MaxTime - 1)
    /\ message_handler = None
    /\ \E i \in 1..Len(ChatPool), t \in AdapterTexts, d \in 0..MaxTime :
           update = [chat_id |-> ChatPool[i], text |-> t, date |-> d]
    /\ files = {}
    /\ last = [op |-> "init"]
    /\ prev = None
    /\ is_running = FALSE
    /\ tasks = <<>>

Next == Register \/ Unregister \/ SetHandler \/ Inbound

\* The whole pipeline: the registry changes while updates are handled.
Spec == Init /\ [][Next]_vars

\* An adapter constructed for any principal of IdPool but None, and an update
\* from any chat of IdPool.
InitAuth ==
    /\ handlers = EmptyDict
    /\ command_map = EmptyDict
    /\ \E i \in 1..(Len(IdPool) - 1) : authorized_chat_id = Str(IdPool[i])
    /\ bot_start_time \in 1..(MaxTime - 1)
    /\ message_handler = None
    /\ \E i \in 1..Len(IdPool), d \in 0..MaxTime :
           update = [chat_id |-> IdPool[i], text |-> W_x, date |-> d]
    /\ files = {}
    /\ last = [op |-> "init"]
    /\ prev = None
    /\ is_running = FALSE
    /\ tasks = <<>>

\* The authorization test alone.
SpecAuth == InitAuth /\ [][Authorize]_vars

\* CaptureManager.temp_dir: tempfile.gettempdir(), "/tmp" unless the
\* environment says otherwise.
temp_dir == <<"/","t","m","p">>

\* Image paths a response may name: a capture file in temp_dir, a file in a
\* tmp directory elsewhere, and a file outside every tmp directory.
P_capture == temp_dir \o <<"/","a">>
P_inner == <<"/","h">> \o temp_dir \o <<"/","a">>
P_home == <<"/","h","/","a">>
PathPool == {P_capture, P_inner, P_home}

\* A handler's response with data.
CaptureResponse(success, data) ==
    [success |-> success, message |-> Text("capture"), handler |-> "capture",
     data |-> data]

\* The responses handle_response is given: with and without an image path,
\* successful and not, and a router error, which has no data.
ResponsePool ==
    << CaptureResponse(TRUE, EmptyDict),
       CaptureResponse(TRUE, [image_path |-> P_capture]),
       CaptureResponse(FALSE, [image_path |-> P_capture]),
       CaptureResponse(TRUE, [image_path |-> P_inner]),
       CaptureResponse(FALSE, [image_path |-> P_home]),
       _create_error_response(Text("Unknown command")) >>

\* An adapter whose message handler answers with one response of
\* ResponsePool, a fresh text from the authorized chat, and some files.
InitDeliver ==
    /\ handlers = EmptyDict
    /\ command_map = EmptyDict
    /\ authorized_chat_id = Str(PrincipalPool[1])
    /\ bot_start_time = 1
    /\ \E i \in 1..Len(ResponsePool) : message_handler = CaptureHandler(ResponsePool[i])
    /\ update = [chat_id |-> PyInt(42), text |-> W_x, date |-> 1]
    /\ files \in SUBSET PathPool
    /\ last = [op |-> "init"]
    /\ prev = None
    /\ is_running = FALSE
    /\ tasks = <<>>

Deliver == \E net \in Network, rm \in RemoveOutcomes : HandleResponse(net, rm)
DeliverInbound == \E net \in Network, rm \in RemoveOutcomes : TextMessage("ok", net, rm)

DeliverNext == Deliver \/ DeliverInbound

\* The delivery of responses, directly and at the end of the inbound pipeline.
SpecDeliver == InitDeliver /\ [][DeliverNext]_vars

\* The file names of CaptureManager and the paths it writes to.
F_webcam ==
    <<"p","4","2","r","_","w","e","b","c","a","m","_","c","a","p","t","u","r","e",
      ".","j","p","g">>
F_screenshot ==
    <<"p","4","2","r","_","s","c","r","e","e","n","s","h","o","t",".","p","n","g">>

\* os.path.join(directory, name)
path_join(directory, name) == directory \o <<"/">> \o name

CaptureKinds == {"webcam", "screenshot"}

\* The file capture_webcam_image() and capture_screenshot() write when no
\* filename is given.
capture_filename(kind) ==
    IF kind = "webcam" THEN path_join(temp_dir, F_webcam)
    ELSE path_join(temp_dir, F_screenshot)

\* An inbound event whose handler captures an image: the pipeline runs
\* the capture, awaits the text send, awaits the image send, and cleans up.
\* seq numbers the captures in the order they are written.
NewCapture(kind) ==
    [pc |-> "received", kind |-> kind, path |-> capture_filename(kind), seq |-> 0,
     found |-> FALSE, own |-> FALSE, text_ok |-> FALSE, image_ok |-> FALSE]

Max(S) == CHOOSE x \in S : \A y \in S : y <= x

\* The task whose capture wrote the file at path last.
Writer(ts, path) ==
    CHOOSE t \in DOMAIN ts :
        /\ ts[t].path = path
        /\ ts[t].seq = Max({ts[u].seq : u \in {v \in DOMAIN ts : ts[v].path = path}})

\* The handler captures (no await) and handle_response starts the text send.
CaptureStep(t) ==
    /\ tasks[t].pc = "received"
    /\ files' = files \cup {tasks[t].path}
    /\ tasks' = [tasks EXCEPT ![t].pc = "sending_text",
                              ![t].seq = 1 + Max({tasks[u].seq : u \in DOMAIN tasks})]
    /\ last' = [op |-> "capture", task |-> t]
    /\ UNCHANGED <<handlers, command_map, authorized_chat_id, bot_start_time,
                   message_handler, update, prev, is_running>>

\* The text send returns; send_image_message tests that the file exists and,
\* if so, opens it and awaits send_photo. Without the file it returns False
\* and the clean-up, which tests the same, removes nothing.
TextSentStep(t, net) ==
    /\ tasks[t].pc = "sending_text"
    /\ LET found == tasks[t].path \in files IN
       tasks' = [tasks EXCEPT ![t].pc = IF found THEN "sending_image" ELSE "delivered",
                              ![t].text_ok = send_text_message(Text("capture"), None, net).ok,
                              ![t].found = found,
                              ![t].own = found /\ Writer(tasks, tasks[t].path) = t]
    /\ last' = [op |-> "text_sent", task |-> t]
    /\ UNCHANGED <<handlers, command_map, authorized_chat_id, bot_start_time,
                   message_handler, update, files, prev, is_running>>

\* send_photo returns or raises; the clean-up removes the file if it exists.
ImageSentStep(t, net, rm) ==
    /\ tasks[t].pc = "sending_image"
    /\ tasks' = [tasks EXCEPT ![t].pc = "delivered", ![t].image_ok = (net = "up")]
    /\ files' = FilesAfter(files, temp_file_removal(tasks[t].path, FS(files, rm)))
    /\ last' = [op |-> "image_sent", task |-> t]
    /\ UNCHANGED <<handlers, command_map, authorized_chat_id, bot_start_time,
                   message_handler, update, prev, is_running>>

\* Two inbound events, each answered with a capture, handled concurrently.
InitCapture ==
    /\ handlers = EmptyDict
    /\ command_map = EmptyDict
    /\ authorized_chat_id = Str(PrincipalPool[1])
    /\ bot_start_time = 1
    /\ message_handler = RouteCommandHandler
    /\ update = [chat_id |-> PyInt(42), text |-> W_x, date |-> 1]
    /\ files = {}
    /\ last = [op |-> "init"]
    /\ prev = None
    /\ is_running = TRUE
    /\ tasks \in [1..NumTasks -> {NewCapture(k) : k \in CaptureKinds}]

Captures == \E t \in DOMAIN tasks : CaptureStep(t)
TextsSent == \E t \in DOMAIN tasks, net \in Network : TextSentStep(t, net)
ImagesSent ==
    \E t \in DOMAIN tasks, net \in Network, rm \in RemoveOutcomes :
        ImageSentStep(t, net, rm)

CaptureNext == Captures \/ TextsSent \/ ImagesSent

\* The pipelines of concurrent inbound events, interleaved at their awaits.
SpecCapture == InitCapture /\ [][CaptureNext]_vars

\* A router after construction, for the registry operations alone.
InitRegistry ==
    /\ handlers = EmptyDict
    /\ command_map = EmptyDict
    /\ authorized_chat_id = Str(PrincipalPool[1])
    /\ bot_start_time = 1
    /\ message_handler = None
    /\ update = [chat_id |-> PyInt(42), text |-> W_x, date |-> 1]
    /\ files = {}
    /\ last = [op |-> "init"]
    /\ prev = None
    /\ is_running = FALSE
    /\ tasks = <<>>

\* The arguments get_help is called with.
HelpArgs == << None, S_run, S_unknown >>

RegisterAny == \E i \in 1..Len(HandlerPool) : RegisterHandler(HandlerPool[i])
UnregisterAny ==
    \E n \in {HandlerPool[i].name : i \in 1..Len(HandlerPool)} : UnregisterHandler(n)
Help == \E i \in 1..Len(HelpArgs) : GetHelp(HelpArgs[i])

RegistryNext == RegisterAny \/ UnregisterAny \/ Help \/ GetHandlerInfo

\* Registrations and removals of every handler of the pool, and the listings.
SpecRegistry == InitRegistry /\ [][RegistryNext]_vars

\* The texts of concurrent route calls.
RouteTexts == { Slash \o S_run \o SP \o W_ls, Slash \o S_kill \o SP \o W_7 }

\* A route_command call that has not run yet. peers will hold the calls that
\* were awaiting their handler when this one started.
NewRoute(text) == [pc |-> "called", text |-> text, peers |-> {}]

\* A call runs up to its await, or returns without one.
RouteBegin(t) ==
    /\ tasks[t].pc = "called"
    /\ LET r == route_resolve(handlers, command_map, tasks[t].text, None)
           peers == {u \in DOMAIN tasks : tasks[u].pc = "awaiting"}
       IN tasks' = [tasks EXCEPT ![t] =
                       IF r.done
                       THEN [pc |-> "returned", text |-> tasks[t].text, peers |-> peers,
                             awaited |-> FALSE, out |-> r.out]
                       ELSE [pc |-> "awaiting", text |-> tasks[t].text, peers |-> peers,
                             resolved |-> r]]
    /\ last' = [op |-> "route_begin", task |-> t]
    /\ UNCHANGED <<handlers, command_map, authorized_chat_id, bot_start_time,
                   message_handler, update, files, prev, is_running>>

\* The handler of a call returns or raises, and the call returns.
RouteEnd(t, beh) ==
    /\ tasks[t].pc = "awaiting"
    /\ tasks' = [tasks EXCEPT ![t] =
                    [pc |-> "returned", text |-> tasks[t].text, peers |-> tasks[t].peers,
                     awaited |-> TRUE, resolved |-> tasks[t].resolved,
                     out |-> route_await(handlers, command_map, tasks[t].resolved, beh)]]
    /\ last' = [op |-> "route_end", task |-> t]
    /\ UNCHANGED <<handlers, command_map, authorized_chat_id, bot_start_time,
                   message_handler, update, files, prev, is_running>>

\* register_handler and unregister_handler hold no await: each runs between
\* two steps of the route calls.
RegistryStep(registry, op, name) ==
    /\ handlers' = registry.handlers
    /\ command_map' = registry.command_map
    /\ last' = [op |-> op, name |-> name]
    /\ UNCHANGED <<authorized_chat_id, bot_start_time, message_handler, update,
                   files, prev, is_running, tasks>>

InitRoutes ==
    /\ handlers = EmptyDict
    /\ command_map = EmptyDict
    /\ authorized_chat_id = Str(PrincipalPool[1])
    /\ bot_start_time = 1
    /\ message_handler = RouteCommandHandler
    /\ update = [chat_id |-> PyInt(42), text |-> W_x, date |-> 1]
    /\ files = {}
    /\ last = [op |-> "init"]
    /\ prev = None
    /\ is_running = TRUE
    /\ tasks \in [1..NumTasks -> {NewRoute(t) : t \in RouteTexts}]

RouteBegins == \E t \in DOMAIN tasks : RouteBegin(t)
RouteEnds == \E t \in DOMAIN tasks, beh \in HandlerBehaviours : RouteEnd(t, beh)
RegistersBetween ==
    \E i \in 1..2 :
        RegistryStep(register_handler(handlers, command_map, HandlerPool[i]),
                     "register_handler", HandlerPool[i].name)
UnregistersBetween ==
    \E i \in 1..2 :
        RegistryStep(unregister_handler(handlers, command_map, HandlerPool[i].name).registry,
                     "unregister_handler", HandlerPool[i].name)

RoutesNext == RouteBegins \/ RouteEnds \/ RegistersBetween \/ UnregistersBetween

\* Concurrent route calls interleaved, at their awaits, with registrations and
\* removals.
SpecRoutes == InitRoutes /\ [][RoutesNext]_vars

\* The texts of the updates of SpecDenial: a plain text, a command, and the
\* two platform-level commands.
DenialTexts ==
    { W_x, Slash \o S_run \o SP \o W_ls \o SP \o W_la, S_help, S_start }

\* An adapter wired to the router, and the first update.
InitDenial ==
    /\ handlers = EmptyDict
    /\ command_map = EmptyDict
    /\ authorized_chat_id = Str(PrincipalPool[1])
    /\ bot_start_time = 1
    /\ message_handler = RouteCommandHandler
    /\ \E i \in 1..Len(ChatPool), t \in DenialTexts, d \in {0, 1} :
           update = [chat_id |-> ChatPool[i], text |-> t, date |-> d]
    /\ files = {}
    /\ last = [op |-> "init"]
    /\ prev = None
    /\ is_running = FALSE
    /\ tasks = <<>>

Receive ==
    \E i \in 1..Len(ChatPool), t \in DenialTexts, d \in {0, 1} :
        ReceiveUpdate([chat_id |-> ChatPool[i], text |-> t, date |-> d])

InboundUp ==
    \E net \in Network :
        \/ TextMessage("ok", net, "ok")
        \/ CommandMessage("ok", net, "ok")
        \/ HelpCommand(net)
        \/ StartCommand(net)

\* The handler that owns "run" is registered, before, between or after updates.
RegisterFirst == RegisterHandler(HandlerPool[1])

DenialNext == RegisterFirst \/ Receive \/ InboundUp

\* Updates handled one after the other while a handler is registered.
SpecDenial == InitDenial /\ [][DenialNext]_vars

\* Texts for the parser: an optional marker, a command name in lower, upper
\* or mixed case, and further tokens separated by whitespace.
W_Kill == <<"K","i","l","l">>
ParseNames ==
    { S_run, S_exec, S_run_screen, S_kill, S_ps, S_list, S_set_password, S_log,
      S_cleanup, S_unknown, W_RUN, W_Kill }
TokenPool == { W_x, W_7 }
TokenTails == UNION { [1..n -> TokenPool] : n \in 0..(MaxTokens - 1) }
Markers == { <<>>, Slash, SP \o Slash }
Separators == { SP, TAB \o SP }

RECURSIVE JoinTail(_, _)
JoinTail(sep, toks) ==
    IF toks = <<>> THEN <<>> ELSE sep \o Head(toks) \o JoinTail(sep, Tail(toks))

ParseTexts ==
    { <<>>, SP, Slash }
    \cup { m \o n \o JoinTail(sep, tl) :
              m \in Markers, n \in ParseNames, sep \in Separators, tl \in TokenTails }

InitParse ==
    /\ handlers = EmptyDict
    /\ command_map = EmptyDict
    /\ authorized_chat_id = Str(PrincipalPool[1])
    /\ bot_start_time = 1
    /\ message_handler = None
    /\ \E t \in ParseTexts : update = [chat_id |-> PyInt(42), text |-> t, date |-> 1]
    /\ files = {}
    /\ last = [op |-> "init"]
    /\ prev = None
    /\ is_running = FALSE
    /\ tasks = <<>>

ParseNext == ParseCommand

\* The parser alone, on every text of ParseTexts.
SpecParse == InitParse /\ [][ParseNext]_vars

\* The adapter is started, stopped and started again, at its start time or
\* later, while updates arrive; updates are handled while it runs.
Starts == \E now \in bot_start_time..MaxTime, o \in StartOutcomes : Start(now, o)
Stops == \E o \in StopOutcomes : Stop(o)
RunningInbound == is_running /\ InboundUp

LifecycleNext == Starts \/ Stops \/ Receive \/ RunningInbound

SpecLifecycle == InitDenial /\ [][LifecycleNext]_vars

----------------------------------------------------------------------------
(* Properties. *)

InboundOps ==
    {"_handle_text_message", "_handle_command_message",
     "_handle_help_command", "_handle_start_command"}

\* The last step handled the update through one of the adapter's entry points.
IsInbound == last.op \in InboundOps

\* The channel id of the message extracted from the update.
ChannelId == extract_message_info(update, bot_start_time).chat_id.str

IsRoute == last.op = "route_command"

ErrorResponse(message) == [success |-> FALSE, message |-> message, handler |-> "router"]

T_run_ls_la == Slash \o S_run \o SP \o W_ls \o SP \o W_la
T_RUN_ls_la == W_RUN \o SP \o SP \o W_ls \o TAB \o W_la
S_ls_la == W_ls \o SP \o W_la

\* C1: on every entry point (text, command, help, start), an update whose
\* channel id differs from the authorized principal id never reaches the
\* message handler or an action handler: the only thing done is the one
\* denial reply.
C1_UnauthorizedNeverRouted ==
    IsInbound /\ ChannelId # authorized_chat_id =>
        /\ last.out.calls = <<>>
        /\ last.out.invoked = <<>>
        /\ Len(last.out.sends) = 1
        /\ last.out.sends[1].text \in {Text("Unauthorized access."), Text("Unauthorized.")}

\* A fresh, well-formed "/run ls -la" from another chat, with the router wired
\* and "run" owned, was denied on the command path.
C1_Witness ==
    /\ last.op = "_handle_command_message"
    /\ update.chat_id = PyInt(7)
    /\ update.text = T_run_ls_la
    /\ update.date >= bot_start_time
    /\ message_handler = RouteCommandHandler
    /\ S_run \in DOMAIN command_map
    /\ last.out.sends[1].text = Text("Unauthorized.")

\* C2: a message sent before the process started is never executed, on any
\* inbound path: the router is not called and no handler is invoked for it.
C2_StaleNeverExecuted ==
    IsInbound /\ update.date < bot_start_time =>
        /\ last.out.invoked = <<>>
        /\ message_handler = RouteCommandHandler => last.out.calls = <<>>

IsIntId(x) == x # None /\ "int" \in DOMAIN x
IsStrId(x) == x # None /\ "str" \in DOMAIN x

\* s is the decimal numeral of an int as str() writes it: an optional "-",
\* then digits with no leading zero.
IsCanonicalDecimal(s) ==
    LET d == IF s # <<>> /\ Head(s) = "-" THEN Tail(s) ELSE s IN
    /\ d # <<>>
    /\ \A i \in 1..Len(d) : IsDigit(d[i])
    /\ Len(d) > 1 => d[1] # "0"
    /\ s # <<"-","0">>

\* The ids a and b have the same string form.
SameIdString(a, b) ==
    CASE IsIntId(a) /\ IsIntId(b) -> a.int = b.int
      [] IsIntId(a) /\ IsStrId(b) -> IsCanonicalDecimal(b.str) /\ IntValue(b.str) = a.int
      [] IsStrId(a) /\ IsIntId(b) -> IsCanonicalDecimal(a.str) /\ IntValue(a.str) = b.int
      [] IsStrId(a) /\ IsStrId(b) -> a.str = b.str
      [] OTHER -> FALSE

\* C3: is_authorized is true exactly when the channel id and the configured
\* principal id have the same string form, each given as a number or as a
\* string; a context without a channel id is compared as the empty string.
C3_AuthorizedIffSameString ==
    last.op = "is_authorized" =>
        LET id == IF "chat_id" \in DOMAIN last.context
                  THEN last.context.chat_id ELSE [str |-> <<>>]
        IN \A i \in 1..(Len(IdPool) - 1) :
               Str(IdPool[i]) = authorized_chat_id =>
                   last.ret = SameIdString(id, IdPool[i])

\* A numeric chat id 42 was accepted against the principal "42".
C3_Witness ==
    /\ last.op = "is_authorized"
    /\ "chat_id" \in DOMAIN last.context
    /\ last.context.chat_id = PyInt(42)
    /\ authorized_chat_id = <<"4","2">>
    /\ last.ret = TRUE

\* C4: for one inbound event the message handler is called at most once and
\* at most one handler is invoked, also when the handler's exception is caught
\* and reported as an error text.
C4_AtMostOnceDispatch ==
    IsInbound => Len(last.out.calls) <= 1 /\ Len(last.out.invoked) <= 1

\* The message handler raised, the error text was sent, and the handler had
\* been called once.
C4_Witness ==
    /\ last.op = "_handle_command_message"
    /\ Len(last.out.calls) = 1
    /\ Len(last.out.sends) = 1
    /\ last.out.sends[1].text.fmt = "Error processing message: "

\* C5 as stated: no exception escapes route_command, whatever the handler does;
\* whatever was raised is turned into the router's error result.
C5_RouteNeverEscapes ==
    IsRoute =>
        /\ last.out.escaped = None
        /\ last.out.raised # None =>
               last.out.response = ErrorResponse(Fmt("Routing error: ", last.out.raised.msg))

\* C5 amended: route_command returns a result unless a handler raised
\* SystemExit (SystemManager.shutdown_system: sys.exit(0)), the one exception
\* that escapes; an Exception raised by the parser or by the handler becomes
\* the router's result with success False, handler "router" and a message
\* carrying the exception's message.
C5_ExceptionsBecomeResults ==
    IsRoute =>
        LET o == last.out
            p == parse_command(last.text)
        IN /\ o.escaped # None =>
                  /\ o.escaped.type = "SystemExit"
                  /\ Len(o.invoked) = 1 /\ o.invoked[1].result.raised
           /\ o.escaped = None => o.response # None /\ o.response.success \in BOOLEAN
           /\ p.raised => o.raised = p.exc /\ o.invoked = <<>>
           /\ (o.invoked # <<>> /\ o.invoked[1].result.raised) =>
                  o.raised = o.invoked[1].result.exc
           /\ (o.raised # None /\ o.raised.type # "SystemExit") =>
                  /\ o.escaped = None
                  /\ o.response = ErrorResponse(Fmt("Routing error: ", o.raised.msg))

\* A handler raised and route_command returned the router's error result.
C5_Witness ==
    /\ IsRoute
    /\ last.out.invoked # <<>>
    /\ last.out.invoked[1].result.raised
    /\ last.out.invoked[1].result.exc.type = "RuntimeError"
    /\ last.out.escaped = None
    /\ last.out.response.handler = "router"

\* C6: the last registration wins. A register step makes the handler the owner
\* of every command it declares, whoever owned it; a route call invokes the
\* handler that owns the command now and no other; an unregister step removes
\* every command the handler owns, so the command is unknown afterwards even
\* when a handler that declares it is still registered.
C6_LastRegistrationWins ==
    /\ [][last'.op = "register_handler" =>
            \A c \in last'.handler.commands :
                /\ c \in DOMAIN command_map'
                /\ command_map'[c] = last'.handler.name
                /\ handlers'[command_map'[c]] = last'.handler]_vars
    /\ [](IsRoute =>
            /\ Len(last.out.invoked) <= 1
            /\ \A k \in 1..Len(last.out.invoked) :
                   /\ last.out.invoked[k].command \in DOMAIN command_map
                   /\ last.out.invoked[k].handler =
                          handlers[command_map[last.out.invoked[k].command]])
    /\ [][last'.op = "unregister_handler" /\ last'.ret =>
            \A c \in DOMAIN command_map :
                command_map[c] = last'.handler_name => c \notin DOMAIN command_map']_vars

\* "system" took "run" over from "shell" and was unregistered: "run" is
\* unmapped although the shell handler that declares it is still registered.
C6_Witness ==
    /\ last.op = "unregister_handler"
    /\ last.handler_name = "system"
    /\ last.ret
    /\ "shell" \in DOMAIN handlers
    /\ S_run \in handlers["shell"].commands
    /\ S_ps \in DOMAIN command_map
    /\ S_run \notin DOMAIN command_map

\* C7: unregister_handler of a registered name removes that handler entry and
\* exactly the commands mapped to the name at that moment, changes no other
\* entry and returns True; of an unknown name it changes nothing and returns
\* False.
C7_UnregisterFrame ==
    [][last'.op = "unregister_handler" =>
          LET n == last'.handler_name
              owned == {c \in DOMAIN command_map : command_map[c] = n}
          IN IF n \in DOMAIN handlers
             THEN /\ last'.ret = TRUE
                  /\ DOMAIN handlers' = DOMAIN handlers \ {n}
                  /\ \A m \in DOMAIN handlers' : handlers'[m] = handlers[m]
                  /\ DOMAIN command_map' = DOMAIN command_map \ owned
                  /\ \A c \in DOMAIN command_map' : command_map'[c] = command_map[c]
             ELSE /\ last'.ret = FALSE
                  /\ handlers' = handlers
                  /\ command_map' = command_map]_vars

\* "system" (which declares run, kill, cleanup) was unregistered while "run"
\* belonged to "shell": "run" is still mapped, "kill" is not.
C7_Witness ==
    /\ last.op = "unregister_handler"
    /\ last.handler_name = "system"
    /\ last.ret
    /\ S_run \in DOMAIN command_map
    /\ command_map[S_run] = "shell"
    /\ S_kill \notin DOMAIN command_map
    /\ "system" \notin DOMAIN handlers

\* The command name of a text: its first token, lower-cased, after one leading
\* marker is removed; empty when there is no token.
CommandNameOf(text) ==
    LET t == Strip(text)
        u == IF StartsWithSlash(t) THEN Tail(t) ELSE t
    IN IF Split(u) = <<>> THEN <<>> ELSE Lower(Split(u)[1])

\* C8: route on a text whose command name is not in command_map returns the
\* router's failure "Unknown command: <name>" and invokes no handler, in every
\* registry state.
C8_UnknownCommand ==
    (IsRoute /\ CommandNameOf(last.text) # <<>>
             /\ CommandNameOf(last.text) \notin DOMAIN command_map) =>
        /\ last.out.response =
               ErrorResponse(Fmt("Unknown command: ", CommandNameOf(last.text)))
        /\ last.out.invoked = <<>>

\* The text holds nothing but whitespace around at most one marker "/".
OnlyMarker(text) ==
    /\ \A i \in 1..Len(text) : text[i] \in Whitespace \cup {"/"}
    /\ Cardinality({i \in 1..Len(text) : text[i] = "/"}) <= 1

\* C9: parse_command yields the empty name, with args None, exactly for the
\* texts that are empty or only the marker once trimmed; for these texts
\* route_command returns the router's failure "Empty command" without
\* consulting command_map and without invoking a handler.
C9_EmptyCommand ==
    IsRoute =>
        LET p == parse_command(last.text) IN
        /\ ~p.raised => ((p.command = <<>>) <=> OnlyMarker(last.text))
        /\ OnlyMarker(last.text) =>
               /\ ~p.raised /\ p.command = <<>> /\ p.args = None
               /\ last.out.response = ErrorResponse(Fmt("Empty command", <<>>))
               /\ ~last.out.looked_up
               /\ last.out.invoked = <<>>

\* " / " was routed while commands were mapped: "Empty command".
C9_Witness ==
    /\ IsRoute
    /\ last.text = <<" ", "/", " ">>
    /\ DOMAIN command_map # {}
    /\ last.out.response.message = Fmt("Empty command", <<>>)

ShellCommands == {S_run, S_exec, S_run_screen}

\* The tokens of a text once the marker is removed.
TokensOf(text) ==
    LET t == Strip(text) IN Split(IF StartsWithSlash(t) THEN Tail(t) ELSE t)

\* C10: for run, exec or run_screen followed by at least one token,
\* parse_command yields the lower-cased name and args {command: the remaining
\* tokens joined by single spaces}; route_command adds the context under
\* "_context", invokes exactly one handler, the one that owns the name in
\* command_map, and returns what that handler returned.
C10_ShellCommandDispatch ==
    (IsRoute /\ Len(TokensOf(last.text)) >= 2
             /\ Lower(TokensOf(last.text)[1]) \in ShellCommands) =>
        LET parts == TokensOf(last.text)
            name == Lower(parts[1])
            p == parse_command(last.text)
            o == last.out
        IN /\ ~p.raised /\ p.command = name
           /\ DOMAIN p.args = {"command"}
           /\ p.args.command = JoinSpace(Tail(parts))
           /\ last.text \in {T_run_ls_la, T_RUN_ls_la} =>
                  p.command = S_run /\ p.args.command = S_ls_la
           /\ name \notin DOMAIN command_map => o.invoked = <<>>
           /\ name \in DOMAIN command_map =>
                  /\ Len(o.invoked) = 1
                  /\ o.invoked[1].handler = handlers[command_map[name]]
                  /\ o.invoked[1].command = name
                  /\ o.invoked[1].args.command = p.args.command
                  /\ IF Truthy(last.context)
                     THEN /\ DOMAIN o.invoked[1].args = {"command", "_context"}
                          /\ o.invoked[1].args["_context"] = last.context
                     ELSE DOMAIN o.invoked[1].args = {"command"}
                  /\ ~o.invoked[1].result.raised =>
                         o.response = o.invoked[1].result.response

\* "RUN  ls<tab>-la" with a context was routed after "system" took "run" over:
\* the system handler alone was invoked, with {command: "ls -la", _context},
\* and its result was returned.
C10_Witness ==
    /\ IsRoute
    /\ last.text = T_RUN_ls_la
    /\ Truthy(last.context)
    /\ "shell" \in DOMAIN handlers
    /\ Len(last.out.invoked) = 1
    /\ last.out.invoked[1].handler.id = "system#1"
    /\ last.out.invoked[1].args.command = S_ls_la
    /\ last.out.response.success
    /\ last.out.response.handler = "system"

\* The message extracted from the update under test.
MessageInfo == extract_message_info(update, bot_start_time)

\* The extracted text is empty or only whitespace.
IsBlankText == \A i \in 1..Len(MessageInfo.text) : MessageInfo.text[i] \in Whitespace

\* C11 as stated: an inbound event whose text is empty or only whitespace
\* produces no outbound send and no call of the message handler, whoever sent it.
C11_BlankTextSilent ==
    IsInbound /\ IsBlankText =>
        last.out.sends = <<>> /\ last.out.calls = <<>>

\* C11 amended: an inbound event from the authorized channel whose text is
\* empty or only whitespace produces no outbound send, no call of the message
\* handler and no handler invocation, and nothing escapes; from any other
\* channel the one denial reply is the only send.
C11_AuthorizedBlankTextSilent ==
    IsInbound /\ IsBlankText =>
        IF ChannelId = authorized_chat_id
        THEN /\ last.out.sends = <<>>
             /\ last.out.calls = <<>>
             /\ last.out.invoked = <<>>
             /\ last.out.escaped = None
        ELSE /\ Len(last.out.sends) = 1
             /\ last.out.calls = <<>>
             /\ last.out.invoked = <<>>

\* The text " " from the authorized chat was handled with the router wired in:
\* nothing was sent.
C11_Witness ==
    /\ last.op = "_handle_text_message"
    /\ update.text = SP
    /\ update.chat_id = PyInt(42)
    /\ message_handler = RouteCommandHandler
    /\ last.out.sends = <<>>

\* The tokens of a set_password text: the command and at least a secret.
IsSetPassword(text) ==
    Len(TokensOf(text)) >= 2 /\ Lower(TokensOf(text)[1]) = S_set_password

T_set_password_s == Slash \o S_set_password \o SP \o W_s
T_set_password_s_7 == T_set_password_s \o SP \o W_7
T_set_password_s_x == T_set_password_s \o SP \o W_x

\* C12: "/set_password s" parses to the secret s with no cipher key,
\* "/set_password s 7" to the secret s and the cipher key 7, and
\* "/set_password s x" is a parse failure: route_command returns a failure
\* authored by the router that is not "Unknown command", and invokes no handler
\* even when a handler owns set_password.
C12_SetPasswordParsing ==
    (IsRoute /\ IsSetPassword(last.text)) =>
        LET parts == TokensOf(last.text)
            p == parse_command(last.text)
            o == last.out
        IN /\ Len(parts) = 2 =>
                  /\ ~p.raised /\ p.command = S_set_password
                  /\ p.args.password = parts[2] /\ p.args.xor_key = None
           /\ last.text = T_set_password_s => p.args.password = W_s
           /\ last.text = T_set_password_s_7 =>
                  /\ ~p.raised /\ p.command = S_set_password
                  /\ p.args.password = W_s /\ p.args.xor_key = PyInt(7)
           /\ last.text = T_set_password_s_x =>
                  /\ p.raised
                  /\ o.escaped = None
                  /\ o.response.success = FALSE
                  /\ o.response.handler = "router"
                  /\ o.response.message.fmt # "Unknown command: "
                  /\ o.invoked = <<>>
           /\ (~p.raised /\ S_set_password \in DOMAIN command_map) =>
                  /\ Len(o.invoked) = 1
                  /\ o.invoked[1].args.password = p.args.password
                  /\ o.invoked[1].args.xor_key = p.args.xor_key

\* "/set_password s x" was routed while a handler owned set_password: the
\* router's failure came back and the handler was not invoked.
C12_Witness ==
    /\ IsRoute
    /\ last.text = T_set_password_s_x
    /\ S_set_password \in DOMAIN command_map
    /\ last.out.response.success = FALSE
    /\ last.out.response.message.fmt = "Routing error: "
    /\ last.out.invoked = <<>>

\* A cleanup text whose second token is not an integer.
IsMalformedCleanup(text) ==
    /\ Len(TokensOf(text)) >= 2
    /\ Lower(TokensOf(text)[1]) = S_cleanup
    /\ ~IsCanonicalDecimal(TokensOf(text)[2])

\* C13: "cleanup <token>" with a token that is not an integer is answered by
\* the router with a failure of its own and the handler owning "cleanup" is
\* not invoked.
C13_MalformedCleanupNotDispatched ==
    (IsRoute /\ IsMalformedCleanup(last.text)) =>
        /\ last.out.invoked = <<>>
        /\ last.out.escaped = None
        /\ last.out.response.success = FALSE
        /\ last.out.response.handler = "router"

\* The last step delivered the response of the capture handler, through
\* handle_response directly or at the end of the text-message path.
IsDelivery ==
    /\ last.op \in {"handle_response", "_handle_text_message"}
    /\ message_handler # None
    /\ message_handler.fn = "capture"

HasImage(r) == "data" \in DOMAIN r /\ "image_path" \in DOMAIN r.data

\* C14: handle_response sends the response's message as a text exactly once
\* and first; it sends an image exactly when the data holds image_path, then
\* exactly once and after the text, with the message behind the success sign
\* when success is true and behind the failure sign otherwise.
C14_TextThenImage ==
    IsDelivery =>
        LET r == message_handler.response
            sends == last.out.sends
        IN /\ Len(sends) >= 1
           /\ sends[1].via = "send_text_message"
           /\ sends[1].text = r.message
           /\ Cardinality({i \in 1..Len(sends) : sends[i].via = "send_text_message"}) = 1
           /\ IF HasImage(r)
              THEN /\ Len(sends) = 2
                   /\ sends[2].via = "send_image_message"
                   /\ sends[2].image_path = r.data.image_path
                   /\ sends[2].caption =
                          [fmt |-> IF r.success THEN "[camera] " ELSE "[cross] ",
                           arg |-> r.message]
              ELSE Len(sends) = 1

\* A failed capture that names an existing image was delivered: the text,
\* then the image with the failure sign.
C14_Witness ==
    /\ last.op = "handle_response"
    /\ HasImage(last.response)
    /\ ~last.response.success
    /\ Len(last.out.sends) = 2
    /\ last.out.sends[2].ok
    /\ last.out.sends[2].caption.fmt = "[cross] "

\* The path lies under temp_dir.
UnderTempDir(path) ==
    /\ Len(path) > Len(temp_dir) + 1
    /\ SubSeq(path, 1, Len(temp_dir) + 1) = temp_dir \o <<"/">>

\* C15: after an image was delivered, the removal of its file is attempted
\* exactly when the file lies under the transient-files root (and exists); a
\* file in a tmp directory elsewhere is never removed.
C15_RemovalOnlyUnderRoot ==
    (IsDelivery /\ HasImage(message_handler.response)) =>
        LET path == message_handler.response.data.image_path
            removed == last.out.removed
        IN /\ removed # <<>> <=> (path \in last.files /\ UnderTempDir(path))
           /\ \A i \in 1..Len(removed) : removed[i].path = path

\* C16: when the removal of the image file fails, nothing is raised out of the
\* delivery and the sends are those of an undisturbed delivery: the text and
\* the image, both sent already, and no error text; the inbound handling ends
\* normally.
C16_RemovalFailureContained ==
    (IsDelivery /\ last.out.removed # <<>> /\ ~last.out.removed[1].ok) =>
        LET r == message_handler.response
            o == last.out
        IN /\ o.escaped = None
           /\ Len(o.sends) = 2
           /\ o.sends[1].via = "send_text_message"
           /\ o.sends[1].text = r.message
           /\ o.sends[2].via = "send_image_message"
           /\ o.sends[2].image_path = r.data.image_path
           /\ o.sends[2].ok = o.sends[1].ok
           /\ r.data.image_path \in files
           /\ last.op = "_handle_text_message" => Len(o.calls) = 1

\* On the text-message path the image was sent and its removal then failed.
C16_Witness ==
    /\ last.op = "_handle_text_message"
    /\ message_handler # None
    /\ message_handler.fn = "capture"
    /\ last.out.removed # <<>>
    /\ ~last.out.removed[1].ok
    /\ Len(last.out.sends) = 2
    /\ last.out.sends[2].ok

\* C17: for an update whose extraction fails, extract_message_info returns
\* the text "" and the chat id "unknown", and is_authorized rejects that
\* message whatever principal is configured.
C17_FallbackRejected ==
    (last.op = "is_authorized" /\ update.chat_id = None
                               /\ "is_recent" \in DOMAIN last.context) =>
        /\ last.context.text = <<>>
        /\ last.context.chat_id = [str |-> S_unknown]
        /\ last.ret = FALSE

\* The texts of the error reports among the sends.
ErrorReports(sends) ==
    {i \in 1..Len(sends) : sends[i].text.fmt = "Error processing message: "}

\* C18: on every entry point no exception leaves the handling of an inbound
\* event, the failure of a denial or stale-notice reply included, and at most
\* one error text is sent.
C18_NothingEscapes ==
    IsInbound =>
        /\ last.out.escaped = None
        /\ Cardinality(ErrorReports(last.out.sends)) <= 1

\* The texts of the sends, in order.
SendTexts(sends) == [i \in 1..Len(sends) |-> sends[i].text]

\* The update came from a chat other than the principal's.
IsUnauthorized(upd) ==
    extract_message_info(upd, bot_start_time).chat_id.str # authorized_chat_id

\* The event handled before and the event handled last are both unauthorized.
TwoDenials ==
    /\ IsInbound
    /\ prev # None
    /\ IsUnauthorized(prev.update)
    /\ IsUnauthorized(last.update)

\* C19 as stated: any two unauthorized events are answered with the same
\* single text, be they commands or plain texts, fresh or stale, whatever is
\* registered.
C19_SameDenial ==
    TwoDenials =>
        /\ Len(last.out.sends) = 1
        /\ SendTexts(last.out.sends) = SendTexts(prev.out.sends)

\* C19 amended: an unauthorized event is answered with one fixed text that
\* depends on the entry point alone, "Unauthorized access." on the plain-text
\* path and "Unauthorized." on the command, help and start paths; two
\* unauthorized events on the same kind of path get the same sends, whatever
\* their texts, their freshness and the registered commands.
C19_DenialFixedPerEntryPoint ==
    TwoDenials =>
        /\ Len(last.out.sends) = 1
        /\ Len(prev.out.sends) = 1
        /\ last.out.sends[1].text =
               IF last.op = "_handle_text_message"
               THEN Text("Unauthorized access.") ELSE Text("Unauthorized.")
        /\ ((prev.op = "_handle_text_message") <=> (last.op = "_handle_text_message")) =>
               SendTexts(last.out.sends) = SendTexts(prev.out.sends)

\* A stale "/help" and then a fresh "/run ls -la" with "run" registered, both
\* from another chat, got the same denial.
C19_Witness ==
    /\ TwoDenials
    /\ prev.update.text = S_help
    /\ prev.update.date < bot_start_time
    /\ last.update.text = T_run_ls_la
    /\ last.update.date >= bot_start_time
    /\ S_run \in DOMAIN command_map
    /\ last.out.sends[1].text = Text("Unauthorized.")
    /\ prev.out.sends[1].text = Text("Unauthorized.")

\* C20: registering the handler that was registered by the step before leaves
\* handlers and command_map as they are; registering a handler instance that
\* is registered already makes it the owner of every command it declares,
\* whoever owned them in between.
C20_RegisterIdempotent ==
    [][last'.op = "register_handler" =>
          /\ (last.op = "register_handler" /\ last.handler = last'.handler) =>
                 /\ handlers' = handlers
                 /\ command_map' = command_map
          /\ last'.again =>
                 /\ handlers'[last'.handler.name] = last'.handler
                 /\ DOMAIN handlers' = DOMAIN handlers
                 /\ \A c \in last'.handler.commands :
                        c \in DOMAIN command_map' /\ command_map'[c] = last'.handler.name]_vars

\* The first shell handler was registered once more while the system handler,
\* which also declares "run", was registered: "run" is the shell handler's.
C20_Witness ==
    /\ last.op = "register_handler"
    /\ last.again
    /\ last.handler.id = "shell#1"
    /\ "system" \in DOMAIN handlers
    /\ S_run \in handlers["system"].commands
    /\ command_map[S_run] = "shell"

----------------------------------------------------------------------------
(* C21 *)

\* The command names the handlers of the pool can declare, and one no handler
\* declares, written in ascending order by hand.
KnownOrder ==
    << S_cleanup, S_exec, S_kill, S_list, S_log, S_ps, S_run, S_run_screen,
       S_set_password, S_unknown >>

IsListing == last.op = "get_available_commands"

Listed(c) == \E i \in 1..Len(last.ret) : last.ret[i] = c

InCommandMap(c) == c \in DOMAIN command_map

AnswersUnknown(c) ==
    \A beh \in HandlerBehaviours :
        route_command(handlers, command_map, c, None, beh).response
            = ErrorResponse(Fmt("Unknown command: ", c))

\* C21: get_available_commands returns exactly the names in command_map, each
\* once, in ascending lexicographic order; and a name is listed exactly when
\* route_command on it would not answer "Unknown command".
C21_ListIsSortedCommandMap ==
    IsListing =>
        /\ {last.ret[i] : i \in 1..Len(last.ret)} = DOMAIN command_map
        /\ Len(last.ret) = Cardinality(DOMAIN command_map)
        /\ last.ret = SelectSeq(KnownOrder, InCommandMap)
        /\ \A i \in 1..Len(KnownOrder) :
               Listed(KnownOrder[i]) <=> ~AnswersUnknown(KnownOrder[i])

\* A listing of a registry where a re-registration left commands of the
\* replaced handler mapped: four names, in order.
C21_Witness ==
    /\ IsListing
    /\ last.ret = <<S_kill, S_ps, S_run, S_set_password>>

----------------------------------------------------------------------------
(* C22 *)

IsCommandPath == last.op = "_handle_command_message"

StaleNotice == Text("Ignoring old message (sent before bot started).")

\* C22: the command-message path tests authorization, then freshness, then
\* routes. The message handler is reached only for an update from the
\* authorized channel sent at or after the start time, and one sent exactly
\* at the start time is accepted; an unauthorized update, stale or not, gets
\* the denial and never the stale notice; an authorized stale update gets one
\* send, the stale notice, and nothing else is done.
C22_CommandGatesInOrder ==
    IsCommandPath =>
        LET authorized == ChannelId = authorized_chat_id
            fresh == update.date >= bot_start_time
        IN /\ (last.out.calls # <<>> \/ last.out.invoked # <<>>) => authorized /\ fresh
           /\ ~authorized =>
                  /\ SendTexts(last.out.sends) = << Text("Unauthorized.") >>
                  /\ last.out.calls = <<>>
           /\ authorized /\ ~fresh =>
                  /\ SendTexts(last.out.sends) = << StaleNotice >>
                  /\ last.out.calls = <<>>
                  /\ last.out.invoked = <<>>
                  /\ last.out.removed = <<>>
           /\ authorized /\ update.date = bot_start_time /\ message_handler # None =>
                  Len(last.out.calls) = 1

\* "/run ls -la" from the authorized channel, sent exactly at the start time,
\* reached the router and the owner of "run".
C22_Witness ==
    /\ IsCommandPath
    /\ ChannelId = authorized_chat_id
    /\ update.date = bot_start_time
    /\ update.text = T_run_ls_la
    /\ message_handler = RouteCommandHandler
    /\ Len(last.out.calls) = 1
    /\ Len(last.out.invoked) = 1

----------------------------------------------------------------------------
(* C23, C24 *)

IsParse == last.op = "parse_command"

\* The text has n tokens or more and its command name is name.
IsCommandWith(text, name, n) ==
    Len(TokensOf(text)) >= n /\ Lower(TokensOf(text)[1]) = name

\* C23: parse_command is total: on every text it returns a pair and raises
\* nothing; for set_password with a third token that is not an integer, and
\* for cleanup with a second token that is not an integer, it returns the
\* command's name with args None.
C23_ParseTotal ==
    IsParse =>
        /\ ~last.ret.raised
        /\ (IsCommandWith(last.text, S_set_password, 3)
                /\ ~IsCanonicalDecimal(TokensOf(last.text)[3])) =>
               last.ret = Returned(S_set_password, None)
        /\ (IsCommandWith(last.text, S_cleanup, 2)
                /\ ~IsCanonicalDecimal(TokensOf(last.text)[2])) =>
               last.ret = Returned(S_cleanup, None)

ArgKeys == <<"arg1", "arg2", "arg3", "arg4">>

\* {arg1: token2, arg2: token3, ...} for two tokens or more
PositionalArgs(parts) ==
    [k \in {ArgKeys[i] : i \in 1..(Len(parts) - 1)} |->
        parts[(CHOOSE i \in 1..(Len(parts) - 1) : ArgKeys[i] = k) + 1]]

\* The names whose arguments the table of C24 does not shape positionally or
\* by a single key.
OtherShapes == ShellCommands \cup {S_set_password, S_cleanup}

\* The args the table gives for the tokens parts of a command outside OtherShapes.
TableArgs(parts) ==
    LET name == Lower(parts[1])
        second == IF Len(parts) > 1 THEN parts[2] ELSE None
    IN CASE name = S_kill -> [target |-> second]
         [] name \in {S_ps, S_list} ->
              IF Len(parts) > 1 THEN [filter |-> second] ELSE None
         [] name = S_log ->
              IF Len(parts) > 1 THEN [api_key |-> second] ELSE None
         [] OTHER ->
              IF Len(parts) > 1 THEN PositionalArgs(parts) ELSE None

\* C24: parse_command agrees with the argument-shape table: the name is the
\* first token lower-cased after one leading marker is removed; kill yields
\* {target: second token or None}; ps and list yield {filter: second token}
\* when there is a second token and args None otherwise; log yields
\* {api_key: second token}; every other command yields {arg1: token2,
\* arg2: token3, ...} in token order, or args None without further tokens.
C24_ArgumentShapeTable ==
    (IsParse /\ TokensOf(last.text) # <<>>) =>
        LET parts == TokensOf(last.text)
            name == Lower(parts[1])
        IN /\ ~last.ret.raised => last.ret.command = name
           /\ name \notin OtherShapes =>
                  /\ ~last.ret.raised
                  /\ last.ret.args = TableArgs(parts)

----------------------------------------------------------------------------
(* C25 *)

\* C25: bot_start_time is set when the adapter is constructed and no later
\* operation changes it: not start, not stop, not a further start, not the
\* handling of a message. Every message of one process lifetime is compared
\* with the same baseline.
C25_StartTimeNeverChanges == [][bot_start_time' = bot_start_time]_vars

\* The adapter handled a message, was stopped, and was started again later
\* than its construction: it runs with the baseline of its construction.
C25_Witness ==
    /\ last.op = "start"
    /\ last.after = "stop"
    /\ last.outcome = "ok"
    /\ last.now > bot_start_time
    /\ is_running
    /\ prev # None
    /\ prev.op = "_handle_command_message"

----------------------------------------------------------------------------
(* C26 *)

RaisedKeyError(out) == out.raised # None /\ out.raised.type = "KeyError"

\* C26: every command of command_map is mapped to a handler name that is a key
\* of handlers, in every state the registrations and removals can reach; so
\* the lookup handlers[handler_name] of route_command never raises KeyError.
C26_RegistryConsistent ==
    /\ \A c \in DOMAIN command_map : command_map[c] \in DOMAIN handlers
    /\ IsRoute => ~RaisedKeyError(last.out)

\* "system" was unregistered after it had taken "run" from "shell": "ps" is
\* still mapped to "shell", which is registered.
C26_Witness ==
    /\ last.op = "unregister_handler"
    /\ last.handler_name = "system"
    /\ last.ret
    /\ S_run \notin DOMAIN command_map
    /\ S_ps \in DOMAIN command_map
    /\ command_map[S_ps] = "shell"
    /\ "shell" \in DOMAIN handlers

----------------------------------------------------------------------------
(* C27 *)

\* C27: after any sequence of registrations and removals, route_command
\* invokes a handler only with a command that this handler instance declares,
\* also when a handler was registered over another one of the same name that
\* declared other commands.
C27_InvokedWithDeclaredCommand ==
    IsRoute =>
        \A i \in 1..Len(last.out.invoked) :
            last.out.invoked[i].command \in last.out.invoked[i].handler.commands

----------------------------------------------------------------------------
(* C28 *)

\* The capture pipelines that are past the existence test of their image send.
PastImageTest == {t \in DOMAIN tasks : tasks[t].pc \in {"sending_image", "delivered"}}

----------------------------------------------------------------------------
(* C29 *)

RoutesReturned == {t \in DOMAIN tasks : tasks[t].pc = "returned"}

\* C29: with route calls interleaved with registrations and removals at the
\* awaits, no call fails with a lookup error; a call that resolved its handler
\* completes on that handler object, with exactly one invocation, even if the
\* handler was unregistered meanwhile; a call that returned without awaiting
\* invoked nothing and got "Unknown command" for its command.
C29_NoLookupErrorUnderInterleaving ==
    \A t \in RoutesReturned :
        LET o == tasks[t].out IN
        /\ ~RaisedKeyError(o)
        /\ tasks[t].awaited =>
               /\ Len(o.invoked) = 1
               /\ o.invoked[1].handler = tasks[t].resolved.handler
               /\ o.invoked[1].command = CommandNameOf(tasks[t].text)
               /\ o.raised = None => o.response.handler = tasks[t].resolved.handler.name
        /\ ~tasks[t].awaited =>
               /\ o.invoked = <<>>
               /\ o.response =
                      ErrorResponse(Fmt("Unknown command: ", CommandNameOf(tasks[t].text)))

\* Call 1 resolved "run" to the shell handler; the handler was unregistered;
\* call 2 started while call 1 was awaiting and got "Unknown command"; call 1
\* completed on the handler that is no longer registered.
C29_Witness ==
    /\ DOMAIN tasks # {}
    /\ tasks[1].pc = "returned" /\ tasks[2].pc = "returned"
    /\ tasks[1].text = tasks[2].text
    /\ tasks[1].awaited
    /\ tasks[1].out.raised = None
    /\ tasks[1].out.response.success
    /\ tasks[1].resolved.handler.name \notin DOMAIN handlers
    /\ ~tasks[2].awaited
    /\ tasks[2].peers = {1}

----------------------------------------------------------------------------
(* C30 *)

IsHandleResponse == last.op = "handle_response"

\* C30: the delivery of a response that names an image sends the text, then
\* sends the image, then removes the file: the image send meets the file as it
\* was before the delivery, the removal is the last step, and the image send
\* and the removal are attempted whether the sends before them succeeded or
\* not (the removal whenever the file exists under a '/tmp/' path).
C30_TextImageThenRemoval ==
    (IsHandleResponse /\ HasImage(last.response)) =>
        LET ev == last.out.events
            path == last.response.data.image_path
            removable == path \in last.files /\ Contains(path, S_tmp_slash)
        IN /\ Len(ev) = IF removable THEN 3 ELSE 2
           /\ IsSendEvent(ev[1]) /\ ev[1].via = "send_text_message"
           /\ IsSendEvent(ev[2]) /\ ev[2].via = "send_image_message"
           /\ ev[2].image_path = path
           /\ ev[2].ok = (path \in last.files /\ ev[1].ok)
           /\ removable =>
                  /\ IsRemoveEvent(ev[3]) /\ ev[3].path = path
                  /\ files = IF ev[3].ok THEN last.files \ {path} ELSE last.files
           /\ ~removable => files = last.files

\* The text send and the image send both failed and the file was removed all
\* the same.
C30_Witness ==
    /\ IsHandleResponse
    /\ HasImage(last.response)
    /\ Len(last.out.events) = 3
    /\ ~last.out.events[1].ok
    /\ ~last.out.events[2].ok
    /\ last.out.events[3].ok
    /\ last.response.data.image_path \in last.files
    /\ last.response.data.image_path \notin files

----------------------------------------------------------------------------
(* C31 *)

\* The commands mapped to the handler name n.
OwnedBy(n) == {c \in DOMAIN command_map : command_map[c] = n}

\* The handlers a listing names.
SectionHandlers(sections) == {sec.body.help_of : sec \in sections}

\* C31: register_handler(h) changes only the entry of handlers under h's name
\* and the command_map entries of the commands h declares; every other entry
\* of both is unchanged. A registered handler leaves handlers only by
\* unregister_handler of its name, also when every command it declares was
\* taken over; the help listing for all handlers and get_handler_info name
\* every entry of handlers; and unregistering a handler that owns no command
\* removes the handler and no command mapping.
C31_RegisterFrame ==
    /\ [][last'.op = "register_handler" =>
            LET h == last'.handler IN
            /\ DOMAIN handlers' = DOMAIN handlers \cup {h.name}
            /\ handlers'[h.name] = h
            /\ \A n \in DOMAIN handlers \ {h.name} : handlers'[n] = handlers[n]
            /\ DOMAIN command_map' = DOMAIN command_map \cup h.commands
            /\ \A c \in h.commands : command_map'[c] = h.name
            /\ \A c \in DOMAIN command_map \ h.commands :
                   command_map'[c] = command_map[c]]_vars
    /\ [][\A n \in DOMAIN handlers :
              n \notin DOMAIN handlers' =>
                  last'.op = "unregister_handler" /\ last'.handler_name = n]_vars
    /\ []((last.op = "get_help" /\ last.command = None) =>
              /\ ~last.ret.raised
              /\ SectionHandlers(last.ret.sections) =
                     {handlers[n].id : n \in DOMAIN handlers}
              /\ Cardinality(last.ret.sections) = Cardinality(DOMAIN handlers))
    /\ [](last.op = "get_handler_info" =>
              /\ DOMAIN last.ret = DOMAIN handlers
              /\ \A n \in DOMAIN handlers :
                     last.ret[n].commands = handlers[n].commands)
    /\ [][(last'.op = "unregister_handler" /\ last'.handler_name \in DOMAIN handlers
               /\ OwnedBy(last'.handler_name) = {}) =>
              /\ last'.ret
              /\ command_map' = command_map
              /\ DOMAIN handlers' = DOMAIN handlers \ {last'.handler_name}]_vars

\* The first shell handler declares "run" and "ps"; both were taken over by
\* registrations under the name "system"; the help listing still has its
\* section.
C31_Witness ==
    /\ last.op = "get_help"
    /\ last.command = None
    /\ "shell" \in DOMAIN handlers
    /\ handlers["shell"].id = "shell#1"
    /\ OwnedBy("shell") = {}
    /\ \A c \in handlers["shell"].commands :
           c \in DOMAIN command_map /\ command_map[c] = "system"
    /\ "shell#1" \in SectionHandlers(last.ret.sections)

====
